---- MODULE Spec2Model ----
\* Model of trade-sonic's market-streaming client: the crypto and stock
\* Streamers (connect, Subscribe, Stream with its reconnect loop, Close) and
\* the coordinator in cmd/streamer/main.go that owns one of each.
EXTENDS Integers, Sequences, FiniteSets, TLC

\* ---------------------------------------------------------------- bounds
\* Messages the peer delivers to a streamer.
MaxReads == 2
\* Read errors the network injects into a streamer.
MaxDrops == 1
\* Failed reconnect attempts the network injects into a streamer.
MaxFails == 7
\* Handlers the caller registers on each streamer before Stream().
MaxHandlers == 2
\* Frames a streamer receives in the runs that check liveness.
FairReads == 1
\* Failed reconnect attempts of a streamer in the runs that check liveness.
FairFails == 2
\* Seconds the token service's clock advances.
MaxClock == 1
\* Access tokens the upstream issues.
MaxTokens == 2
\* Prices of market data and of option quotes are 1..MaxPrice.
MaxPrice == 3
\* The upstream API answers at most MaxLists position requests with a list.
MaxLists == 2
\* Strategy objects of one name that are handed to the engine.
MaxInstances == 3

\* ------------------------------------------------------ program constants
\* Durations are counted in seconds.
Second == 1
MaxBackoff == 30
\* Mutant of StartupRetries: one more attempt.
StartupRetriesFour == 3 + 1
StartupRetries == 3
PrefixLen == 8

Streamers == {"crypto", "stock"}

Other(s) == IF s = "crypto" THEN "stock" ELSE "crypto"

FormatSymbol(base, quote) == "BINANCE:" \o base \o quote

cryptoPairs ==
  <<FormatSymbol("BTC", "USDT"), FormatSymbol("ETH", "USDT"), FormatSymbol("BNB", "USDT")>>

stockSymbols == <<"AAPL", "MSFT", "GOOGL">>

SymbolsOf(s) == IF s = "crypto" THEN cryptoPairs ELSE stockSymbols

\* ------------------------------------------------------------ wire format
\* stream.Trade: symbol and price (timestamp and volume play no part in
\* control flow).
TradeBTC == [s |-> "BINANCE:BTCUSDT", p |-> 100]
TradeETH == [s |-> "BINANCE:ETHUSDT", p |-> 200]
TradeAAPL == [s |-> "AAPL", p |-> 300]

\* Raw messages a socket can deliver: kind "text" is bytes that are not JSON,
\* "object" is a JSON object with the given "type" and "data" members.
RawMessages ==
  { [kind |-> "text", type |-> "", data |-> <<>>],
    [kind |-> "object", type |-> "ping", data |-> <<TradeBTC>>],
    [kind |-> "object", type |-> "trade", data |-> <<TradeBTC, TradeETH>>],
    [kind |-> "object", type |-> "trade", data |-> <<TradeAAPL, TradeBTC>>] }

\* json.Unmarshal(message, &tradeData) into stream.TradeData.
Unmarshal(m) ==
  IF m.kind = "object"
  THEN [err |-> FALSE, Type |-> m.type, Data |-> m.data]
  ELSE [err |-> TRUE, Type |-> "", Data |-> <<>>]

\* Mutant of IsTradeFrame: the type of the frame is not looked at.
IsTradeFrameAny(td) == TRUE

\* if tradeData.Type == "trade"
IsTradeFrame(td) == td.Type = "trade"

\* The control message Subscribe formats for one symbol.
SubscribeMsg(symbol) == [type |-> "subscribe", symbol |-> symbol]

\* Mutant of SubscribeWrites: a failed write is skipped and the loop goes on.
SubscribeWritesSkip(syms, k) ==
  IF k < Len(syms)
  THEN [i \in 1..(Len(syms) - 1) |-> [type |-> "subscribe",
                                        symbol |-> syms[IF i <= k THEN i ELSE i + 1]]]
  ELSE [i \in 1..k |-> [type |-> "subscribe", symbol |-> syms[i]]]

\* The messages Subscribe has written when its k+1-th write fails
\* (k = Len(syms): no write fails).
SubscribeWrites(syms, k) == [i \in 1..k |-> SubscribeMsg(syms[i])]

\* Mutant of SubscribeOk: the error of the last write is swallowed.
SubscribeOkLax(syms, k) == k >= Len(syms) - 1

\* Subscribe returns nil exactly when every write succeeded.
SubscribeOk(syms, k) == k = Len(syms)

\* Mutant of NextBackoff: the cap is applied before the doubling.
NextBackoffLateCap(b) == IF b > MaxBackoff THEN MaxBackoff ELSE b * 2

\* Mutant of NextBackoff: the cap is missing.
NextBackoffNoCap(b) == b * 2

\* backoff *= 2; if backoff > maxBackoff { backoff = maxBackoff }
NextBackoff(b) == IF b * 2 > MaxBackoff THEN MaxBackoff ELSE b * 2

\* Mutant of ResetBackoff: backoff is cleared instead of set to one second.
ResetBackoffZero(b, s) == [b EXCEPT ![s] = 0]

\* Mutant of ResetBackoff: backoff is left as it is.
ResetBackoffKeep(b, s) == b

\* Mutant of ResetBackoff: backoff is one variable shared by the streamers.
ResetBackoffShared(b, s) == [t \in DOMAIN b |-> Second]

\* backoff = time.Second, in the Stream() of streamer s (backoff is a local
\* of each Stream call; b maps each streamer to its own).
ResetBackoff(b, s) == [b EXCEPT ![s] = Second]

\* Mutant of AfterRead: a decode error ends the read loop.
AfterReadStopOnError(td, nh) ==
  IF td.err THEN "idle"
  ELSE IF IsTradeFrame(td) /\ Len(td.Data) > 0 /\ nh > 0 THEN "dispatch"
  ELSE "read"

\* Where the read loop goes after ReadMessage returned a message that
\* decoded to td: a decode error is logged and skipped, a frame of type
\* "trade" with records is dispatched to the nh handlers, anything else is
\* ignored.
AfterRead(td, nh) ==
  IF td.err THEN "read"
  ELSE IF IsTradeFrame(td) /\ Len(td.Data) > 0 /\ nh > 0 THEN "dispatch"
  ELSE "read"

\* Mutant of OnReadError: Stream returns the read error to its caller.
OnReadErrorReturn == "idle"

\* if err != nil after ReadMessage: Stream enters its reconnection loop.
OnReadError == "sleep"

\* createTradeHandler(marketType): the display handler slices
\* trade.Symbol[8:] for the crypto market, which panics on a shorter symbol.
createTradeHandler(marketType, n) == [market |-> marketType, id |-> n]

\* Mutant of HandlerPanics: slicing a short symbol does not fail.
HandlerPanicsNever(h, trade) == FALSE

HandlerPanics(h, trade) == h.market = "crypto" /\ Len(trade.s) < PrefixLen

\* s.handlers = append(s.handlers, handler)
AddHandler(hs, h) == Append(hs, h)

\* Mutant of NextCall: the loops are nested the other way round.
NextCallByHandler(i, j, nrec, nh) ==
  IF i < nrec THEN <<i + 1, j>>
  ELSE IF j < nh THEN <<1, j + 1>>
  ELSE <<0, 0>>

\* for _, trade := range Data { for _, handler := range s.handlers { ... } }
\* the position after the call at record i, handler j; <<0, 0>> when the
\* loops are finished.
NextCall(i, j, nrec, nh) ==
  IF j < nh THEN <<i, j + 1>>
  ELSE IF i < nrec THEN <<i + 1, 1>>
  ELSE <<0, 0>>

\* What conn.Close() returns on socket c: nil when it closes an open socket,
\* the transport's "use of closed network connection" error when the socket
\* was closed before.
CloseResult(op, c) == IF c \in op THEN "nil" ELSE "error"

\* Mutant of CloseSock: the socket is left open.
CloseSockLeak(op, c) == op

\* conn.Close() on socket c of a streamer whose open sockets are op.
CloseSock(op, c) == op \ {c}

\* What the network does to the two streamers in one run: how many messages
\* it delivers, how many read errors and how many reconnect failures it
\* injects. A run has a long failure streak on one streamer, or traffic and
\* an outage on one streamer, or an outage with a failed reconnect on both.
Budget(r, d, f) == [reads |-> r, drops |-> d, fails |-> f]

Scenarios ==
  {[s \in Streamers |-> IF s = f THEN Budget(0, MaxDrops, MaxFails) ELSE Budget(0, 0, 0)] :
     f \in Streamers}
  \cup {[s \in Streamers |-> IF s = f THEN Budget(MaxReads, MaxDrops, 1) ELSE Budget(0, 0, 0)] :
          f \in Streamers}
  \cup {[s \in Streamers |-> Budget(0, MaxDrops, 1)]}

Spend(b, s, what) == [b EXCEPT ![s][what] = @ - 1]

VARIABLES
  process,    \* "running", "exit0" (main returned), "exit1" (log.Fatal / os.Exit(1)), "panic"
  mainPc,     \* position of main
  retries,    \* main's retries loop variable
  mainConn,   \* the s.conn value loaded by the Close() main is executing
  wg,         \* sync.WaitGroup counter
  closeRet,   \* per streamer: what main's s.Close() returned, "none" before it
  pc,         \* per streamer: position of its Stream() goroutine
  conn,       \* per streamer: s.conn, a socket id, 0 for nil
  connected,  \* crypto.Streamer.connected
  symbols,    \* per streamer: s.symbols
  handlers,   \* per streamer: s.handlers
  backoff,    \* per streamer: Stream's local backoff
  cur,        \* per streamer: tradeData.Data of the frame being dispatched
  di,         \* per streamer: index of the record being dispatched
  dj,         \* per streamer: index of the handler being called
  nsock,      \* per streamer: sockets dialled so far (socket ids are 1..nsock)
  open,       \* per streamer: the ids of its sockets that are open
  sent,       \* per streamer: messages written on the socket s.conn names
  firstSent,  \* per streamer: messages written by the first Subscribe()
  readLog,    \* per streamer: raw messages ReadMessage returned, in order
  calls,      \* per streamer: handler invocations <<handler, trade>>, in order
  streak,     \* per streamer: failed reconnect attempts since the last success
  prevStreak, \* per streamer: length of the last failure streak that ended in success
  lastDelay,  \* per streamer: the duration of the last time.Sleep(backoff)
  budget,     \* per streamer: messages, read errors and reconnect failures the network may still produce
  clock,      \* the instant time.Now() returns, in minutes since Sunday 00:00 exchange time
  zone,       \* the offset of the process's time zone from exchange time, in minutes
  tzLoaded,   \* whether time.LoadLocation("America/New_York") succeeds
  trading,    \* the last IsTrading() call: the instant it ran at and its result
  gateSub     \* the outcome of the last stock Subscribe() run against the gate

mainVars == <<mainPc, retries, mainConn, wg, closeRet>>
fieldVars == <<conn, connected, symbols, handlers>>
loopVars == <<pc, backoff, cur, di, dj>>
sockVars == <<nsock, open, sent, firstSent>>
histVars == <<readLog, calls, streak, prevStreak, lastDelay>>
budgetVars == <<budget>>

gateVars == <<clock, zone, tzLoaded, trading, gateSub>>

VARIABLES
  tokenCache,   \* token.Service.tokenCache: per account type its entry, NoEntry if absent
  credentials,  \* the account types token.Service.credentials has an entry for
  tokenNow,     \* time.Now() of the token service, in seconds
  issued,       \* access tokens the upstream has issued so far (tokens are 1..issued)
  tokenCalls    \* per request: position and locals of its GetToken() call, and what it returned

tokenVars == <<tokenCache, credentials, tokenNow, issued, tokenCalls>>

VARIABLES
  stratName,           \* StopLossStrategy.name, "nil" while no strategy was constructed
  maxDrawdownPercent,  \* StopLossStrategy.maxDrawdownPercent
  positions,           \* StopLossStrategy.positions: per symbol its Position, NoPosition if absent
  optionPositions,     \* StopLossStrategy.optionPositions: per option id, NoOption if absent
  stratLast,           \* the last call on the strategy and what it returned
  highSeen             \* per tracked symbol: the highest of its first HighestPrice and the prices processed since

stratVars == <<stratName, maxDrawdownPercent, positions, optionPositions, stratLast, highSeen>>

VARIABLES
  positionCache,  \* position.Service.positionCache: per account type the cached list, 0 if absent
  accountID,      \* position.Service.accountID
  fetched,        \* position lists the upstream has answered so far (lists are 1..fetched)
  firstOK,        \* per account type: the list the first successful GetPositions returned, 0 if none
  posCalls        \* per request: position and locals of its GetPositions() call, and what it returned

posVars == <<positionCache, accountID, fetched, firstOK, posCalls>>

VARIABLES
  strategies,  \* Engine.strategies: per name the registered strategy, NoStrategy if absent
  engLast      \* the last call on the engine and what it returned

engVars == <<strategies, engLast>>

svcVars == <<tokenVars, stratVars, posVars, engVars>>

streamVars == <<process, mainVars, fieldVars, loopVars, sockVars, histVars, budgetVars>>

vars == <<streamVars, gateVars, svcVars>>

\* ------------------------------------------------- the market session gate
\* Instants are minutes since Sunday 00:00 of one week in exchange time
\* (America/New_York); time.Weekday counts Sunday = 0 ... Saturday = 6.
Sunday == 0
Saturday == 6
MinutesPerDay == 1440
\* 9:30 and 16:00 as minutes of the day.
OpenMinute == 570
CloseMinute == 960

\* The minutes of a day at which the gate is asked: midnight, around the
\* opening and the closing instant, midday, the last minute.
SampleMinutes == {0, 569, 570, 571, 720, 959, 960, 961, 1439}

Instants == {d * MinutesPerDay + m : d \in 0..6, m \in SampleMinutes}

\* Offset of the process's zone (time.Local) from exchange time, in minutes:
\* America/Los_Angeles, America/New_York, Asia/Tokyo.
ProcessZones == {0 - 180, 0, 840}

\* now.Weekday() of instant t read in a zone z minutes ahead of exchange time.
WeekdayIn(t, z) ==
  ((t + z + 7 * MinutesPerDay) % (7 * MinutesPerDay)) \div MinutesPerDay

\* stock.IsTrading() called at instant now by a process in zone z; tzOk is
\* whether time.LoadLocation finds America/New_York.
IsTrading(now, z, tzOk) ==
  IF WeekdayIn(now, z) = Saturday \/ WeekdayIn(now, z) = Sunday
  THEN FALSE
  ELSE IF ~tzOk
       THEN FALSE
       ELSE /\ now % MinutesPerDay > OpenMinute
            /\ now % MinutesPerDay < CloseMinute

\* No IsTrading() call has been made.
NoCall == [at |-> 0 - 1, result |-> FALSE]

\* Mutant of StockSubscribe: a closed gate refuses the subscription.
StockSubscribeGated(syms, k, isTrading) ==
  [called |-> TRUE, warned |-> ~isTrading,
   writes |-> IF isTrading THEN SubscribeWrites(syms, k) ELSE <<>>,
   ok |-> isTrading /\ SubscribeOk(syms, k), k |-> k]

\* stock Streamer.Subscribe() when the k+1-th write fails (k = Len(syms):
\* none fails) and IsTrading() returned isTrading: the warning is logged when
\* the gate is closed, then the symbols are written as in the crypto streamer.
StockSubscribe(syms, k, isTrading) ==
  [called |-> TRUE, warned |-> ~isTrading,
   writes |-> SubscribeWrites(syms, k),
   ok |-> SubscribeOk(syms, k), k |-> k]

\* No stock Subscribe() has been run against the gate.
NoGateSub == [called |-> FALSE, warned |-> FALSE, writes |-> <<>>, ok |-> FALSE, k |-> 0]

\* The state of the streaming client before main's first statement.
InitStream ==
  /\ process = "running"
  /\ mainPc = "newCrypto"
  /\ retries = 0
  /\ mainConn = 0
  /\ wg = 0
  /\ closeRet = [s \in Streamers |-> "none"]
  /\ pc = [s \in Streamers |-> "idle"]
  /\ conn = [s \in Streamers |-> 0]
  /\ connected = FALSE
  /\ symbols = [s \in Streamers |-> <<>>]
  /\ handlers = [s \in Streamers |-> <<>>]
  /\ backoff = [s \in Streamers |-> 0]
  /\ cur = [s \in Streamers |-> <<>>]
  /\ di = [s \in Streamers |-> 0]
  /\ dj = [s \in Streamers |-> 0]
  /\ nsock = [s \in Streamers |-> 0]
  /\ open = [s \in Streamers |-> {}]
  /\ sent = [s \in Streamers |-> <<>>]
  /\ firstSent = [s \in Streamers |-> <<>>]
  /\ readLog = [s \in Streamers |-> <<>>]
  /\ calls = [s \in Streamers |-> <<>>]
  /\ streak = [s \in Streamers |-> 0]
  /\ prevStreak = [s \in Streamers |-> 0]
  /\ lastDelay = [s \in Streamers |-> 0]

\* The gate's inputs when only the streaming client is looked at.
GateIdle ==
  /\ clock = 0
  /\ zone = 0
  /\ tzLoaded = TRUE
  /\ trading = NoCall
  /\ gateSub = NoGateSub

\* --------------------------------------------------------- token service
Robinhood == "robinhood"

\* The account types requests name: the supported one and an unknown one.
AccountTypes == {Robinhood, "invalid"}

\* The HTTP requests being served at the same time.
Callers == {"r1", "r2"}

\* No entry in tokenCache for the account type.
NoEntry == [exists |-> FALSE, AccessToken |-> 0, ExpiresAt |-> 0]

\* Mutant of cachedToken: the entry gets an expiry that is not the one
\* fetched with the token.
cachedTokenOtherExpiry(token, expiresAt) ==
  [exists |-> TRUE, AccessToken |-> token, ExpiresAt |-> expiresAt + 1]

cachedToken(token, expiresAt) ==
  [exists |-> TRUE, AccessToken |-> token, ExpiresAt |-> expiresAt]

\* What a GetToken() call has returned: nothing yet, a TokenResponse, an
\* error, or it did not return because it panicked.
NoReturn == [kind |-> "none", AccessToken |-> 0, ExpiresAt |-> 0]
ReturnError == [kind |-> "error", AccessToken |-> 0, ExpiresAt |-> 0]
ReturnPanic == [kind |-> "panic", AccessToken |-> 0, ExpiresAt |-> 0]
TokenResponse(token, expiresAt) ==
  [kind |-> "token", AccessToken |-> token, ExpiresAt |-> expiresAt]

\* A request that is not inside GetToken(). reqs are the upstream requests
\* fetchRobinhoodToken has made with their answers, in order; hit is whether
\* the call was answered from the cache.
IdleCall ==
  [pc |-> "idle", accountType |-> Robinhood, reqs |-> <<>>, attempt |-> 0,
   token |-> 0, expiresAt |-> 0, hit |-> FALSE, ret |-> NoReturn]

\* The token service with nothing cached and no request.
TokenIdle ==
  /\ tokenCache = [a \in AccountTypes |-> NoEntry]
  /\ credentials = {Robinhood}
  /\ tokenNow = 0
  /\ issued = 0
  /\ tokenCalls = [c \in Callers |-> IdleCall]

\* --------------------------------------------------- stop-loss strategy
\* The two StopLossStrategy sources: the one that tracks stock positions only
\* and the one that also tracks option positions fetched from the position
\* service.
StockOnly == "stop_loss_strategy"
WithOptions == "option_stop_loss_strategy"

Variants == {StockOnly, WithOptions}

StratSymbols == {"AAPL", "BTC-USD"}
OptionIDs == {"o1"}

\* No entry in s.positions for the symbol. EntryPrice and LastUpdateTime are
\* only copied into a signal's metadata and are left out.
NoPosition == [tracked |-> FALSE, HighestPrice |-> 0, Quantity |-> 0]

Position(highest, quantity) ==
  [tracked |-> TRUE, HighestPrice |-> highest, Quantity |-> quantity]

\* No entry in s.optionPositions for the option id.
NoOption == [tracked |-> FALSE, Symbol |-> "", HighestPrice |-> 0, Quantity |-> 0]

OptionPosition(symbol, highest, quantity) ==
  [tracked |-> TRUE, Symbol |-> symbol, HighestPrice |-> highest, Quantity |-> quantity]

\* ProcessData returned nil for the signal.
NoSignal == [Action |-> "none", Symbol |-> "", Price |-> 0, Quantity |-> 0, reason |-> ""]

Signal(symbol, price, quantity, reason) ==
  [Action |-> "SELL", Symbol |-> symbol, Price |-> price, Quantity |-> quantity,
   reason |-> reason]

\* No call has been made on the strategy.
NoStratCall ==
  [op |-> "none", err |-> FALSE, signal |-> NoSignal]

\* No strategy has been constructed.
StratIdle ==
  /\ stratName = "nil"
  /\ maxDrawdownPercent = 0
  /\ positions = [y \in StratSymbols |-> NoPosition]
  /\ optionPositions = [o \in OptionIDs |-> NoOption]
  /\ stratLast = NoStratCall
  /\ highSeen = [y \in StratSymbols |-> 0]

\* ------------------------------------------------------ position service
\* GetPositions has not returned.
NoPositions == [kind |-> "none", list |-> 0]

\* return nil, err of GetPositions.
PositionsError == [kind |-> "error", list |-> 0]

\* return positions, nil of GetPositions.
PositionList(list) == [kind |-> "ok", list |-> list]

\* A request that is not inside GetPositions. since is firstOK of its account
\* type when the call began; tokenReqs and fetchReqs count its calls of the
\* token service and of the upstream API; stored tells that it wrote the cache.
IdlePositions ==
  [pc |-> "idle", accountType |-> Robinhood, positions |-> 0, since |-> 0,
   tokenReqs |-> 0, fetchReqs |-> 0, stored |-> FALSE, ret |-> NoPositions]

PosIdle ==
  /\ positionCache = [a \in AccountTypes |-> 0]
  /\ accountID = "acct"
  /\ fetched = 0
  /\ firstOK = [a \in AccountTypes |-> 0]
  /\ posCalls = [c \in Callers |-> IdlePositions]

\* -------------------------------------------------------- strategy engine
\* The names Name() of a strategy can return.
StrategyNames == {StockOnly, WithOptions}

\* The strategy objects a caller can hand to the engine: MaxInstances of each
\* name.
Instances == {[name |-> n, id |-> i] : n \in StrategyNames, i \in 1..MaxInstances}

\* No entry in e.strategies for the name.
NoStrategy == [name |-> "", id |-> 0]

ErrStrategyAlreadyExists == "strategy already exists"
ErrStrategyNotFound == "strategy not found"

\* The error a strategy's Cleanup returns when it fails.
ErrCleanup == "cleanup failed"

\* No call on the engine yet. err is the returned error, "nil" for none;
\* strategy and exists are GetStrategy's results, names is ListStrategies'
\* result, called is the set of strategies ProcessMarketData handed the data
\* and handled the set of those whose signal went to the signal handler.
NoEngineCall ==
  [op |-> "none", err |-> "nil", strategy |-> NoStrategy, exists |-> FALSE,
   names |-> {}, called |-> {}, handled |-> {}]

\* NewEngine(signalHandler).
EngIdle ==
  /\ strategies = [n \in StrategyNames \cup {"unknown"} |-> NoStrategy]
  /\ engLast = NoEngineCall

SvcIdle == TokenIdle /\ StratIdle /\ PosIdle /\ EngIdle

Init ==
  /\ InitStream
  /\ budget \in Scenarios
  /\ GateIdle
  /\ SvcIdle

\* ------------------------------------------------------------ coordinator
\* websocket.DefaultDialer.Dial succeeded for streamer s: a new open socket,
\* stored in s.conn.
Dialled(s) ==
  /\ nsock' = [nsock EXCEPT ![s] = @ + 1]
  /\ open' = [open EXCEPT ![s] = @ \cup {nsock[s] + 1}]
  /\ conn' = [conn EXCEPT ![s] = nsock[s] + 1]
  /\ sent' = [sent EXCEPT ![s] = <<>>]

\* main: the retry loop around crypto.NewStreamer (NewStreamer calls connect).
NewCryptoStreamer ==
  /\ process = "running" /\ mainPc = "newCrypto"
  /\ \/ /\ Dialled("crypto")
        /\ connected' = TRUE
        /\ symbols' = [symbols EXCEPT !["crypto"] = cryptoPairs]
        /\ mainPc' = "newStock"
        /\ retries' = 0
        /\ UNCHANGED process
     \/ /\ retries' = retries + 1
        /\ IF retries + 1 < StartupRetries
           THEN UNCHANGED <<mainPc, process>>
           ELSE mainPc' = "fatal" /\ process' = "exit1"
        /\ UNCHANGED <<conn, connected, symbols, nsock, open, sent>>
  /\ UNCHANGED <<gateVars, svcVars>>
  /\ UNCHANGED <<mainConn, closeRet, wg, handlers, loopVars, firstSent, histVars, budgetVars>>

\* main: the retry loop around stock.NewStreamer.
NewStockStreamer ==
  /\ process = "running" /\ mainPc = "newStock"
  /\ \/ /\ Dialled("stock")
        /\ symbols' = [symbols EXCEPT !["stock"] = stockSymbols]
        /\ mainPc' = "addHandlers"
        /\ retries' = 0
        /\ UNCHANGED process
     \/ /\ retries' = retries + 1
        /\ IF retries + 1 < StartupRetries
           THEN UNCHANGED <<mainPc, process>>
           ELSE mainPc' = "fatal" /\ process' = "exit1"
        /\ UNCHANGED <<conn, symbols, nsock, open, sent>>
  /\ UNCHANGED <<gateVars, svcVars>>
  /\ UNCHANGED <<mainConn, closeRet, wg, connected, handlers, loopVars, firstSent, histVars, budgetVars>>

\* n calls of s.AddHandler(createTradeHandler(s)).
RECURSIVE AddHandlersN(_, _, _)
AddHandlersN(hs, s, n) ==
  IF n = 0 THEN hs
  ELSE AddHandler(AddHandlersN(hs, s, n - 1), createTradeHandler(s, n))

\* main: AddHandler on both streamers. main.go registers one display handler
\* on each; the model lets the caller register up to MaxHandlers of them, which
\* AddHandler permits, so that registration order is observable.
AddHandlers ==
  /\ process = "running" /\ mainPc = "addHandlers"
  /\ \E n \in 1..MaxHandlers :
       handlers' = [s \in Streamers |-> AddHandlersN(handlers[s], s, n)]
  /\ mainPc' = "subCrypto"
  /\ UNCHANGED <<gateVars, svcVars>>
  /\ UNCHANGED <<process, retries, mainConn, closeRet, wg, conn, connected, symbols,
                 loopVars, sockVars, histVars, budgetVars>>

\* main: the first Subscribe() of streamer s; an error is fatal.
\* k is the number of writes that succeed.
MainSubscribe(s, here, next) ==
  /\ process = "running" /\ mainPc = here
  /\ \E k \in 0..Len(symbols[s]) :
       /\ sent' = [sent EXCEPT ![s] = SubscribeWrites(symbols[s], k)]
       /\ firstSent' = [firstSent EXCEPT ![s] = SubscribeWrites(symbols[s], k)]
       /\ IF SubscribeOk(symbols[s], k)
          THEN mainPc' = next /\ UNCHANGED process
          ELSE mainPc' = "fatal" /\ process' = "exit1"
  /\ UNCHANGED <<gateVars, svcVars>>
  /\ UNCHANGED <<retries, mainConn, closeRet, wg, fieldVars, loopVars, nsock, open,
                 histVars, budgetVars>>

SubscribeCrypto == MainSubscribe("crypto", "subCrypto", "subStock")

SubscribeStock == MainSubscribe("stock", "subStock", "goCrypto")

\* main: wg.Add(2) and the go statement that runs cryptoStreamer.Stream().
\* Stream starts with backoff := time.Second.
GoCrypto ==
  /\ process = "running" /\ mainPc = "goCrypto"
  /\ wg' = wg + 2
  /\ pc' = [pc EXCEPT !["crypto"] = "read"]
  /\ backoff' = [backoff EXCEPT !["crypto"] = Second]
  /\ mainPc' = "goStock"
  /\ UNCHANGED <<gateVars, svcVars>>
  /\ UNCHANGED <<process, retries, mainConn, closeRet, fieldVars, cur, di, dj, sockVars,
                 histVars, budgetVars>>

\* main: the go statement that runs stockStreamer.Stream().
GoStock ==
  /\ process = "running" /\ mainPc = "goStock"
  /\ pc' = [pc EXCEPT !["stock"] = "read"]
  /\ backoff' = [backoff EXCEPT !["stock"] = Second]
  /\ mainPc' = "wait"
  /\ UNCHANGED <<gateVars, svcVars>>
  /\ UNCHANGED <<process, retries, mainConn, closeRet, wg, fieldVars, cur, di, dj, sockVars,
                 histVars, budgetVars>>

\* main: <-interrupt returns; main falls off its end and runs the deferred
\* calls, last deferred first.
Interrupt ==
  /\ process = "running" /\ mainPc = "wait"
  /\ mainPc' = "deferStock"
  /\ UNCHANGED <<gateVars, svcVars>>
  /\ UNCHANGED <<process, retries, mainConn, closeRet, wg, fieldVars, loopVars, sockVars,
                 histVars, budgetVars>>

\* main enters s.Close(): it loads s.conn.
CloseBegin(s, here, inside) ==
  /\ process = "running" /\ mainPc = here
  /\ mainConn' = conn[s]
  /\ mainPc' = inside
  /\ UNCHANGED <<gateVars, svcVars>>
  /\ UNCHANGED <<process, retries, wg, closeRet, fieldVars, loopVars, sockVars,
                 histVars, budgetVars>>

\* main leaves s.Close(): the socket it loaded is closed, and Close returns
\* what conn.Close() returned.
CloseEnd(s, inside, next) ==
  /\ process = "running" /\ mainPc = inside
  /\ open' = [open EXCEPT ![s] = CloseSock(@, mainConn)]
  /\ closeRet' = [closeRet EXCEPT ![s] = CloseResult(open[s], mainConn)]
  /\ mainConn' = 0
  /\ mainPc' = next
  /\ process' = IF next = "returned" THEN "exit0" ELSE process
  /\ UNCHANGED <<gateVars, svcVars>>
  /\ UNCHANGED <<retries, wg, fieldVars, loopVars, nsock, sent, firstSent,
                 histVars, budgetVars>>

CloseStockBegin == CloseBegin("stock", "deferStock", "inCloseStock")

CloseStockEnd == CloseEnd("stock", "inCloseStock", "deferCrypto")

CloseCryptoBegin == CloseBegin("crypto", "deferCrypto", "inCloseCrypto")

\* The last deferred call returns and so does main: the process exits.
CloseCryptoEnd == CloseEnd("crypto", "inCloseCrypto", "returned")

\* ------------------------------------------------- Stream(), per streamer
\* crypto.Streamer keeps a connected flag; stock.Streamer has none.
SetConnected(s, v) == IF s = "crypto" THEN connected' = v ELSE UNCHANGED connected

\* s.conn.ReadMessage() returns a message. A decode error is logged and the
\* loop continues; a frame of type "trade" is dispatched record by record.
ReadMessage(s) ==
  /\ process = "running" /\ pc[s] = "read"
  /\ conn[s] \in open[s]
  /\ budget[s].reads > 0
  /\ \E m \in RawMessages :
       LET td == Unmarshal(m) IN
       /\ readLog' = [readLog EXCEPT ![s] = Append(@, m)]
       /\ pc' = [pc EXCEPT ![s] = AfterRead(td, Len(handlers[s]))]
       /\ IF AfterRead(td, Len(handlers[s])) = "dispatch"
          THEN /\ cur' = [cur EXCEPT ![s] = td.Data]
               /\ di' = [di EXCEPT ![s] = 1]
               /\ dj' = [dj EXCEPT ![s] = 1]
          ELSE UNCHANGED <<cur, di, dj>>
  /\ budget' = Spend(budget, s, "reads")
  /\ UNCHANGED <<gateVars, svcVars>>
  /\ UNCHANGED <<process, mainVars, fieldVars, backoff, sockVars, calls, streak,
                 prevStreak, lastDelay>>

\* handler(trade) for the record and handler the loops are at. A panic in
\* the handler is not recovered and crashes the process.
Dispatch(s) ==
  /\ process = "running" /\ pc[s] = "dispatch"
  /\ LET trade == cur[s][di[s]]
         handler == handlers[s][dj[s]]
         nxt == NextCall(di[s], dj[s], Len(cur[s]), Len(handlers[s]))
     IN  /\ calls' = [calls EXCEPT ![s] = Append(@, <<handler, trade>>)]
         /\ IF HandlerPanics(handler, trade)
            THEN /\ process' = "panic"
                 /\ UNCHANGED <<pc, cur, di, dj>>
            ELSE /\ UNCHANGED process
                 /\ di' = [di EXCEPT ![s] = nxt[1]]
                 /\ dj' = [dj EXCEPT ![s] = nxt[2]]
                 /\ IF nxt = <<0, 0>>
                    THEN pc' = [pc EXCEPT ![s] = "read"] /\ cur' = [cur EXCEPT ![s] = <<>>]
                    ELSE UNCHANGED <<pc, cur>>
  /\ UNCHANGED <<gateVars, svcVars>>
  /\ UNCHANGED <<mainVars, fieldVars, backoff, sockVars, readLog, streak, prevStreak,
                 lastDelay, budgetVars>>

\* s.conn.ReadMessage() returns an error (the peer or the network broke the
\* connection, or the socket was closed locally): s.conn.Close() and enter
\* the reconnection loop.
ReadError(s) ==
  /\ process = "running" /\ pc[s] = "read"
  /\ \/ conn[s] \notin open[s] /\ UNCHANGED budget
     \/ conn[s] \in open[s] /\ budget[s].drops > 0 /\ budget' = Spend(budget, s, "drops")
  /\ open' = [open EXCEPT ![s] = CloseSock(@, conn[s])]
  /\ SetConnected(s, FALSE)
  /\ pc' = [pc EXCEPT ![s] = OnReadError]
  /\ UNCHANGED <<gateVars, svcVars>>
  /\ UNCHANGED <<process, mainVars, conn, symbols, handlers, backoff, cur, di, dj,
                 nsock, sent, firstSent, histVars>>

\* time.Sleep(backoff), then the doubling of backoff.
Sleep(s) ==
  /\ process = "running" /\ pc[s] = "sleep"
  /\ lastDelay' = [lastDelay EXCEPT ![s] = backoff[s]]
  /\ backoff' = [backoff EXCEPT ![s] = NextBackoff(backoff[s])]
  /\ pc' = [pc EXCEPT ![s] = "dial"]
  /\ UNCHANGED <<gateVars, svcVars>>
  /\ UNCHANGED <<process, mainVars, fieldVars, cur, di, dj, sockVars, readLog, calls,
                 streak, prevStreak, budgetVars>>

\* The reconnect attempt: crypto's s.connect(), stock's inline Dial.
Connect(s) ==
  /\ process = "running" /\ pc[s] = "dial"
  /\ \/ /\ Dialled(s)
        /\ SetConnected(s, TRUE)
        /\ pc' = [pc EXCEPT ![s] = "subscribe"]
        /\ UNCHANGED <<streak, budget>>
     \/ /\ budget[s].fails > 0
        /\ budget' = Spend(budget, s, "fails")
        /\ streak' = [streak EXCEPT ![s] = @ + 1]
        /\ pc' = [pc EXCEPT ![s] = "sleep"]
        /\ UNCHANGED <<conn, connected, nsock, open, sent>>
  /\ UNCHANGED <<gateVars, svcVars>>
  /\ UNCHANGED <<process, mainVars, symbols, handlers, backoff, cur, di, dj, firstSent,
                 readLog, calls, prevStreak, lastDelay>>

\* Resubscribe on the new socket; k writes succeed. A failure closes the
\* socket and retries; success resets backoff and resumes the read loop.
Resubscribe(s) ==
  /\ process = "running" /\ pc[s] = "subscribe"
  /\ \E k \in 0..Len(symbols[s]) :
       /\ conn[s] \notin open[s] => k = 0
       /\ (k < Len(symbols[s]) /\ conn[s] \in open[s]) => budget[s].fails > 0
       /\ sent' = [sent EXCEPT ![s] = SubscribeWrites(symbols[s], k)]
       /\ IF SubscribeOk(symbols[s], k)
          THEN /\ backoff' = ResetBackoff(backoff, s)
               /\ pc' = [pc EXCEPT ![s] = "read"]
               /\ prevStreak' = [prevStreak EXCEPT ![s] = streak[s]]
               /\ streak' = [streak EXCEPT ![s] = 0]
               /\ UNCHANGED <<open, connected, budget>>
          ELSE /\ open' = [open EXCEPT ![s] = CloseSock(@, conn[s])]
               /\ SetConnected(s, FALSE)
               /\ pc' = [pc EXCEPT ![s] = "sleep"]
               /\ streak' = [streak EXCEPT ![s] = @ + 1]
               /\ budget' = IF conn[s] \in open[s] THEN Spend(budget, s, "fails") ELSE budget
               /\ UNCHANGED <<backoff, prevStreak>>
  /\ UNCHANGED <<gateVars, svcVars>>
  /\ UNCHANGED <<process, mainVars, conn, symbols, handlers, cur, di, dj, nsock,
                 firstSent, readLog, calls, lastDelay>>

StreamStep(s) ==
  \/ ReadMessage(s)
  \/ Dispatch(s)
  \/ ReadError(s)
  \/ Sleep(s)
  \/ Connect(s)
  \/ Resubscribe(s)

Next ==
  \/ NewCryptoStreamer
  \/ NewStockStreamer
  \/ AddHandlers
  \/ SubscribeCrypto
  \/ SubscribeStock
  \/ GoCrypto
  \/ GoStock
  \/ Interrupt
  \/ CloseStockBegin
  \/ CloseStockEnd
  \/ CloseCryptoBegin
  \/ CloseCryptoEnd
  \/ \E s \in Streamers : ReadMessage(s)
  \/ \E s \in Streamers : Dispatch(s)
  \/ \E s \in Streamers : ReadError(s)
  \/ \E s \in Streamers : Sleep(s)
  \/ \E s \in Streamers : Connect(s)
  \/ \E s \in Streamers : Resubscribe(s)

Spec == Init /\ [][Next]_vars

\* The scheduler runs a goroutine that can run: a time.Sleep ends, and a dial
\* or a Subscribe the goroutine has reached is carried out.
Fairness ==
  \A s \in Streamers :
    WF_vars(Sleep(s)) /\ WF_vars(Connect(s)) /\ WF_vars(Resubscribe(s))

\* The networks the liveness of the reconnect loop is checked on: one streamer
\* with drops and a few failed attempts, or with a little traffic, the other
\* quiet.
FairScenarios ==
  {[s \in Streamers |-> IF s = f THEN Budget(0, MaxDrops, FairFails)
                                   ELSE Budget(0, 0, 0)] : f \in Streamers}
  \cup {[s \in Streamers |-> IF s = f THEN Budget(FairReads, 0, 0)
                                        ELSE Budget(0, 0, 0)] : f \in Streamers}

FairInit == InitStream /\ budget \in FairScenarios /\ GateIdle /\ SvcIdle

FairSpec == FairInit /\ [][Next]_vars /\ Fairness

\* The gate on its own: a process in some zone, with or without a time zone
\* database; the streaming client does not move.
GateInit ==
  /\ InitStream
  /\ budget = [s \in Streamers |-> Budget(0, 0, 0)]
  /\ clock = 0
  /\ zone \in ProcessZones
  /\ tzLoaded \in BOOLEAN
  /\ trading = NoCall
  /\ gateSub = NoGateSub
  /\ SvcIdle

\* Time passes: the next time.Now() returns a later instant.
Tick ==
  /\ \E t \in Instants : t > clock /\ clock' = t
  /\ UNCHANGED <<zone, tzLoaded, trading, gateSub>>
  /\ UNCHANGED <<streamVars, svcVars>>

\* A call of IsTrading().
CallIsTrading ==
  /\ trading' = [at |-> clock, result |-> IsTrading(clock, zone, tzLoaded)]
  /\ UNCHANGED <<clock, zone, tzLoaded, gateSub>>
  /\ UNCHANGED <<streamVars, svcVars>>

\* A call of the stock streamer's Subscribe(): it asks the gate, then writes.
CallStockSubscribe ==
  /\ \E k \in 0..Len(stockSymbols) :
       gateSub' = StockSubscribe(stockSymbols, k, IsTrading(clock, zone, tzLoaded))
  /\ UNCHANGED <<clock, zone, tzLoaded, trading>>
  /\ UNCHANGED <<streamVars, svcVars>>

GateNext ==
  \/ Tick
  \/ CallIsTrading
  \/ CallStockSubscribe

SpecGate == GateInit /\ [][GateNext]_vars

\* ------------------------------------------------ token service: GetToken
\* for attempt := 0; attempt < 30; attempt++
PromptAttempts == 30

\* expires_in of a token response, in seconds.
ExpiresInValues == {1}

\* What the upstream answers to each request of fetchRobinhoodToken;
\* "failed" is makeRequest returning an error (transport or JSON decoding).
InitialTokenResponses ==
  {"failed", "access_token", "verification_workflow", "neither",
   "workflowNotMap", "workflowNoId"}
MachineResponses == {"failed", "id", "noId"}
UserViewResponses == {"failed", "challenge", "noContext", "noChallengeId"}
PromptResponses == {"failed", "non200", "validated", "issued", "other"}
WorkflowResponses == {"failed", "approved", "denied", "noTypeContext"}
FinalTokenResponses == {"failed", "access_token", "noAccessToken"}

\* Mutant of IsValid: the comparison with the expiry is the wrong way round.
IsValidFlipped(entry, now) == entry.exists /\ entry.ExpiresAt < now

\* if token, exists := s.tokenCache[accountType]; exists {
\*   if time.Now().Before(token.ExpiresAt)
IsValid(entry, now) == entry.exists /\ now < entry.ExpiresAt

\* challengeID, ok := viewResp.Body["context"].(map[string]interface{})
\*   ["sheriff_challenge"].(map[string]interface{})["id"].(string):
\* only the last assertion is checked, the two before it panic on a body
\* without the nested object.
UserViewOutcome(r) ==
  CASE r = "challenge" -> "next"
    [] r = "noContext" -> "panic"
    [] OTHER -> "error"

\* workflowStatus, ok := viewResp.Body["type_context"].(map[string]interface{})
\*   ["result"].(string), then ok and "workflow_status_approved" are required.
WorkflowOutcome(r) ==
  CASE r = "approved" -> "next"
    [] r = "noTypeContext" -> "panic"
    [] OTHER -> "error"

\* The call ends and hands ret to its caller; its locals are gone.
Finish(call, ret) ==
  [IdleCall EXCEPT !.accountType = call.accountType, !.hit = call.hit, !.ret = ret]

\* The call ends the way outcome says, or goes on at position next.
Proceed(call, outcome, next) ==
  CASE outcome = "next" -> [call EXCEPT !.pc = next]
    [] outcome = "panic" -> Finish(call, ReturnPanic)
    [] OTHER -> Finish(call, ReturnError)

\* The call has made one more upstream request and got the answer r.
Requested(call, what, r) ==
  [call EXCEPT !.reqs = Append(@, [req |-> what, resp |-> r])]

\* A token response with an access token: the upstream issues a new token,
\* expiresAt := time.Now().Add(expiresIn seconds).
\* fetchRobinhoodToken returns them and its locals are gone.
Granted(call, e, next) ==
  [IdleCall EXCEPT !.pc = next, !.accountType = call.accountType,
                   !.token = issued + 1, !.expiresAt = tokenNow + e]

\* time.Now() advances.
TokenTick ==
  /\ tokenNow < MaxClock
  /\ tokenNow' = tokenNow + 1
  /\ UNCHANGED <<tokenCache, credentials, issued, tokenCalls>>
  /\ UNCHANGED <<streamVars, gateVars, stratVars, posVars, engVars>>

\* Handler.GetToken calls h.service.GetToken(req.AccountType).
CallGetToken(c) ==
  /\ tokenCalls[c].pc = "idle"
  /\ \E a \in AccountTypes :
       tokenCalls' = [tokenCalls EXCEPT ![c] =
                        [IdleCall EXCEPT !.pc = "check", !.accountType = a]]
  /\ UNCHANGED <<tokenCache, credentials, tokenNow, issued>>
  /\ UNCHANGED <<streamVars, gateVars, stratVars, posVars, engVars>>

\* GetToken lines 82-92: under the read lock, return the cached token when
\* it has not expired.
CheckCache(c) ==
  LET call == tokenCalls[c]
      entry == tokenCache[call.accountType]
  IN /\ call.pc = "check"
     /\ tokenCalls' = [tokenCalls EXCEPT ![c] =
          IF IsValid(entry, tokenNow)
          THEN Finish([call EXCEPT !.hit = TRUE],
                      TokenResponse(entry.AccessToken, entry.ExpiresAt))
          ELSE [call EXCEPT !.pc = "creds"]]
     /\ UNCHANGED <<tokenCache, credentials, tokenNow, issued>>
     /\ UNCHANGED <<streamVars, gateVars, stratVars, posVars, engVars>>

\* GetToken lines 95-100: no credentials for the account type is an error.
GetCredentials(c) ==
  LET call == tokenCalls[c]
  IN /\ call.pc = "creds"
     /\ tokenCalls' = [tokenCalls EXCEPT ![c] =
          IF call.accountType \in credentials
          THEN [call EXCEPT !.pc = "fetch"]
          ELSE Finish(call, ReturnError)]
     /\ UNCHANGED <<tokenCache, credentials, tokenNow, issued>>
     /\ UNCHANGED <<streamVars, gateVars, stratVars, posVars, engVars>>

\* GetToken line 103, fetchNewToken, and step 1 of fetchRobinhoodToken: an
\* account type other than robinhood is unsupported; otherwise the initial
\* token request is made and answered by an access token, a verification
\* workflow, or something else.
FetchNewToken(c) ==
  LET call == tokenCalls[c]
      asked(r) == Requested(call, "token", r)
  IN /\ call.pc = "fetch"
     /\ \/ /\ call.accountType # Robinhood
           /\ tokenCalls' = [tokenCalls EXCEPT ![c] = Finish(call, ReturnError)]
           /\ UNCHANGED issued
        \/ /\ call.accountType = Robinhood
           /\ \E r \in InitialTokenResponses :
                \/ /\ r = "access_token"
                   /\ issued < MaxTokens
                   /\ \E e \in ExpiresInValues :
                        tokenCalls' = [tokenCalls EXCEPT ![c] = Granted(asked(r), e, "store")]
                   /\ issued' = issued + 1
                \/ /\ r = "verification_workflow"
                   /\ tokenCalls' = [tokenCalls EXCEPT ![c] = [asked(r) EXCEPT !.pc = "machine"]]
                   /\ UNCHANGED issued
                \/ /\ r \notin {"access_token", "verification_workflow"}
                   /\ tokenCalls' = [tokenCalls EXCEPT ![c] = Finish(asked(r), ReturnError)]
                   /\ UNCHANGED issued
     /\ UNCHANGED <<tokenCache, credentials, tokenNow>>
     /\ UNCHANGED <<streamVars, gateVars, stratVars, posVars, engVars>>

\* Step 2, machine verification: the inquiry id is needed.
MachineVerification(c) ==
  LET call == tokenCalls[c]
      asked(r) == Requested(call, "machine", r)
  IN /\ call.pc = "machine"
     /\ \E r \in MachineResponses :
          tokenCalls' = [tokenCalls EXCEPT ![c] =
                           Proceed(asked(r), IF r = "id" THEN "next" ELSE "error", "view")]
     /\ UNCHANGED <<tokenCache, credentials, tokenNow, issued>>
     /\ UNCHANGED <<streamVars, gateVars, stratVars, posVars, engVars>>

\* Step 3, user view: the challenge id is needed.
UserView(c) ==
  LET call == tokenCalls[c]
      asked(r) == Requested(call, "view", r)
  IN /\ call.pc = "view"
     /\ \E r \in UserViewResponses :
          tokenCalls' = [tokenCalls EXCEPT ![c] =
                           Proceed(asked(r), UserViewOutcome(r), "prompt")]
     /\ UNCHANGED <<tokenCache, credentials, tokenNow, issued>>
     /\ UNCHANGED <<streamVars, gateVars, stratVars, posVars, engVars>>

\* Step 4, one iteration of the prompt-status loop: "validated" leaves the
\* loop, "issued" sleeps and polls again until 30 polls were made, and then
\* the loop ends as well; anything else is an error.
PromptStatus(c) ==
  LET call == tokenCalls[c]
      asked(r) == Requested(call, "prompt", r)
  IN /\ call.pc = "prompt"
     /\ call.attempt < PromptAttempts
     /\ \E r \in PromptResponses :
          tokenCalls' = [tokenCalls EXCEPT ![c] =
            CASE r = "validated" -> [asked(r) EXCEPT !.pc = "workflow"]
              [] r = "issued" ->
                   [asked(r) EXCEPT !.attempt = @ + 1,
                                 !.pc = IF call.attempt + 1 < PromptAttempts
                                        THEN "prompt" ELSE "workflow"]
              [] OTHER -> Finish(asked(r), ReturnError)]
     /\ UNCHANGED <<tokenCache, credentials, tokenNow, issued>>
     /\ UNCHANGED <<streamVars, gateVars, stratVars, posVars, engVars>>

\* Step 5, workflow status: it must be "workflow_status_approved".
WorkflowStatus(c) ==
  LET call == tokenCalls[c]
      asked(r) == Requested(call, "workflow", r)
  IN /\ call.pc = "workflow"
     /\ \E r \in WorkflowResponses :
          tokenCalls' = [tokenCalls EXCEPT ![c] =
                           Proceed(asked(r), WorkflowOutcome(r), "final")]
     /\ UNCHANGED <<tokenCache, credentials, tokenNow, issued>>
     /\ UNCHANGED <<streamVars, gateVars, stratVars, posVars, engVars>>

\* Step 6, final token request: it must carry an access token.
FinalToken(c) ==
  LET call == tokenCalls[c]
      asked(r) == Requested(call, "token", r)
  IN /\ call.pc = "final"
     /\ \E r \in FinalTokenResponses :
          \/ /\ r = "access_token"
             /\ issued < MaxTokens
             /\ \E e \in ExpiresInValues :
                  tokenCalls' = [tokenCalls EXCEPT ![c] = Granted(asked(r), e, "store")]
             /\ issued' = issued + 1
          \/ /\ r # "access_token"
             /\ tokenCalls' = [tokenCalls EXCEPT ![c] = Finish(asked(r), ReturnError)]
             /\ UNCHANGED issued
     /\ UNCHANGED <<tokenCache, credentials, tokenNow>>
     /\ UNCHANGED <<streamVars, gateVars, stratVars, posVars, engVars>>

\* GetToken lines 109-114: under the write lock, cache the fetched token.
StoreToken(c) ==
  LET call == tokenCalls[c]
  IN /\ call.pc = "store"
     /\ tokenCache' = [tokenCache EXCEPT ![call.accountType] =
                         cachedToken(call.token, call.expiresAt)]
     /\ tokenCalls' = [tokenCalls EXCEPT ![c] = [call EXCEPT !.pc = "return"]]
     /\ UNCHANGED <<credentials, tokenNow, issued>>
     /\ UNCHANGED <<streamVars, gateVars, stratVars, posVars, engVars>>

\* GetToken lines 116-119: the lock is released, the response is returned.
ReturnToken(c) ==
  LET call == tokenCalls[c]
  IN /\ call.pc = "return"
     /\ tokenCalls' = [tokenCalls EXCEPT ![c] =
                         Finish(call, TokenResponse(call.token, call.expiresAt))]
     /\ UNCHANGED <<tokenCache, credentials, tokenNow, issued>>
     /\ UNCHANGED <<streamVars, gateVars, stratVars, posVars, engVars>>

\* The token service on its own: NewService loads the robinhood credentials;
\* a Service built with credentials for more account types is covered as well.
TokenInit ==
  /\ InitStream
  /\ budget = [s \in Streamers |-> Budget(0, 0, 0)]
  /\ GateIdle
  /\ StratIdle
  /\ PosIdle
  /\ EngIdle
  /\ tokenCache = [a \in AccountTypes |-> NoEntry]
  /\ credentials \in {{Robinhood}, AccountTypes}
  /\ tokenNow = 0
  /\ issued = 0
  /\ tokenCalls = [c \in Callers |-> IdleCall]

TokenNext ==
  \/ TokenTick
  \/ \E c \in Callers : CallGetToken(c)
  \/ \E c \in Callers : CheckCache(c)
  \/ \E c \in Callers : GetCredentials(c)
  \/ \E c \in Callers : FetchNewToken(c)
  \/ \E c \in Callers : MachineVerification(c)
  \/ \E c \in Callers : UserView(c)
  \/ \E c \in Callers : PromptStatus(c)
  \/ \E c \in Callers : WorkflowStatus(c)
  \/ \E c \in Callers : FinalToken(c)
  \/ \E c \in Callers : StoreToken(c)
  \/ \E c \in Callers : ReturnToken(c)

SpecToken == TokenInit /\ [][TokenNext]_vars

\* ------------------------------------------- stop-loss strategy: operations
Prices == 1..MaxPrice

\* params["max_drawdown_percent"]: a float64 v, or a value of another type
\* (or no value), for which the type assertion fails.
DrawdownParams ==
  {[float |-> FALSE, v |-> 25]}
    \cup {[float |-> TRUE, v |-> x] : x \in {0 - 1, 0, 25, 50, 100, 101}}

\* Mutant of ValidDrawdown: the limits themselves are accepted.
ValidDrawdownInclusive(p) == p.float /\ ~(p.v < 0 \/ p.v > 100)

\* maxDrawdown, ok := params["max_drawdown_percent"].(float64); !ok is an
\* error, and so is maxDrawdown <= 0 || maxDrawdown >= 100.
ValidDrawdown(p) == p.float /\ ~(p.v <= 0 \/ p.v >= 100)

\* What Parameters() reports as "max_drawdown_percent".
Parameters == maxDrawdownPercent

HigherOf(a, b) == IF b > a THEN b ELSE a

\* currentDrawdown := (highest - price) / highest * 100;
\* currentDrawdown >= s.maxDrawdownPercent, for highest > 0.
Triggered(highest, price, limit) == (highest - price) * 100 >= limit * highest

\* NewStopLossStrategy(params) of either source.
NewStopLossStrategy(variant, p) ==
  /\ stratName = "nil"
  /\ IF ValidDrawdown(p)
     THEN /\ stratName' = variant
          /\ maxDrawdownPercent' = p.v
          /\ stratLast' = [NoStratCall EXCEPT !.op = "new"]
     ELSE /\ stratLast' = [NoStratCall EXCEPT !.op = "new", !.err = TRUE]
          /\ UNCHANGED <<stratName, maxDrawdownPercent>>
  /\ UNCHANGED <<positions, optionPositions, highSeen>>
  /\ UNCHANGED <<streamVars, gateVars, tokenVars, posVars, engVars>>

\* UpdateParameters(params).
UpdateParameters(p) ==
  /\ stratName # "nil"
  /\ IF ValidDrawdown(p)
     THEN /\ maxDrawdownPercent' = p.v
          /\ stratLast' = [NoStratCall EXCEPT !.op = "update"]
     ELSE /\ stratLast' = [NoStratCall EXCEPT !.op = "update", !.err = TRUE]
          /\ UNCHANGED maxDrawdownPercent
  /\ UNCHANGED <<stratName, positions, optionPositions, highSeen>>
  /\ UNCHANGED <<streamVars, gateVars, tokenVars, posVars, engVars>>

\* The quantity of a stock position that is held.
HeldQuantity == 1

\* A caller in the package sets s.positions[symbol] to a position it holds,
\* as TestStopLossStrategy_ProcessData does: tracking starts at price.
TrackPosition ==
  /\ stratName # "nil"
  /\ \E y \in StratSymbols, price \in Prices :
       /\ ~positions[y].tracked
       /\ positions' = [positions EXCEPT ![y] = Position(price, HeldQuantity)]
       /\ highSeen' = [highSeen EXCEPT ![y] = price]
       /\ stratLast' = [NoStratCall EXCEPT !.op = "track"]
  /\ UNCHANGED <<stratName, maxDrawdownPercent, optionPositions>>
  /\ UNCHANGED <<streamVars, gateVars, tokenVars, posVars, engVars>>

\* One position of the position service's answer, applied by
\* fetchOptionPositions: an empty id is skipped, a known id gets the quantity
\* and a higher price, an unknown id becomes a new option position.
ApplyOption(opts, id, symbol, quantity, current) ==
  IF id = ""
  THEN opts
  ELSE IF opts[id].tracked
       THEN [opts EXCEPT ![id].Quantity = quantity,
                         ![id].HighestPrice = HigherOf(@, current)]
       ELSE [opts EXCEPT ![id] = OptionPosition(symbol, current, quantity)]

\* fetchOptionPositions(), run by Initialize and by its ticker goroutine: the
\* request fails, or the answer lists no position or one.
FetchOptionPositions ==
  /\ stratName = WithOptions
  /\ \/ /\ UNCHANGED optionPositions
        /\ stratLast' = [NoStratCall EXCEPT !.op = "fetch", !.err = TRUE]
     \/ /\ UNCHANGED optionPositions
        /\ stratLast' = [NoStratCall EXCEPT !.op = "fetch"]
     \/ \E id \in OptionIDs \cup {""}, y \in StratSymbols, q \in {0, 2}, current \in Prices :
          /\ optionPositions' = ApplyOption(optionPositions, id, y, q, current)
          /\ stratLast' = [NoStratCall EXCEPT !.op = "fetch"]
  /\ UNCHANGED <<stratName, maxDrawdownPercent, positions, highSeen>>
  /\ UNCHANGED <<streamVars, gateVars, tokenVars, posVars, engVars>>

\* The option positions of the symbol, which the loop over s.optionPositions
\* looks at.
OptionsOf(y) == {o \in OptionIDs : optionPositions[o].tracked /\ optionPositions[o].Symbol = y}

\* The loop's update of one option position: a higher price becomes its
\* HighestPrice.
Repriced(o, price) == [optionPositions[o] EXCEPT !.HighestPrice = HigherOf(@, price)]

\* The loop's test on the updated option position.
OptionFires(o, price) ==
  /\ Repriced(o, price).Quantity > 0
  /\ Triggered(Repriced(o, price).HighestPrice, price, maxDrawdownPercent)

\* The reason the stock signal of either source carries.
StockReason == IF stratName = WithOptions THEN "stock_stop_loss" ELSE "stop_loss"

\* The stock part of ProcessData: a symbol without a position gets one with
\* quantity 0; a held position whose drawdown reaches the limit is sold and
\* deleted; otherwise a higher price becomes the HighestPrice.
ProcessStock(y, price) ==
  LET pos == positions[y]
      highest == HigherOf(pos.HighestPrice, price)
  IN  IF ~pos.tracked
      THEN /\ positions' = [positions EXCEPT ![y] = Position(price, 0)]
           /\ highSeen' = [highSeen EXCEPT ![y] = price]
           /\ stratLast' = [NoStratCall EXCEPT !.op = "process"]
      ELSE IF pos.Quantity > 0 /\ Triggered(highest, price, maxDrawdownPercent)
           THEN /\ positions' = [positions EXCEPT ![y] = NoPosition]
                /\ highSeen' = [highSeen EXCEPT ![y] = 0]
                /\ stratLast' = [NoStratCall EXCEPT !.op = "process",
                               !.signal = Signal(y, price, pos.Quantity, StockReason)]
           ELSE /\ positions' = [positions EXCEPT ![y].HighestPrice = highest]
                /\ highSeen' = [highSeen EXCEPT ![y] = HigherOf(@, price)]
                /\ stratLast' = [NoStratCall EXCEPT !.op = "process"]

\* ProcessData(ctx, data) with data.Symbol = y and data.Price = price. The
\* source with option positions first ranges over s.optionPositions, in the
\* map's order: the first option of the symbol it meets that fires is deleted
\* and its signal returned at once, after the options met before it have been
\* repriced; only when none fires does the stock part run.
ProcessData(y, price) ==
  /\ stratName # "nil"
  /\ IF stratName = WithOptions /\ \E o \in OptionsOf(y) : OptionFires(o, price)
     THEN \E o \in {x \in OptionsOf(y) : OptionFires(x, price)} :
          \E met \in SUBSET {x \in OptionsOf(y) : ~OptionFires(x, price)} :
            /\ optionPositions' =
                 [x \in OptionIDs |->
                    IF x = o THEN NoOption
                    ELSE IF x \in met THEN Repriced(x, price)
                    ELSE optionPositions[x]]
            /\ stratLast' = [NoStratCall EXCEPT !.op = "process",
                               !.signal = Signal(optionPositions[o].Symbol, price,
                                                 optionPositions[o].Quantity,
                                                 "option_stop_loss")]
            /\ highSeen' = [highSeen EXCEPT ![y] =
                              IF positions[y].tracked THEN HigherOf(@, price) ELSE @]
            /\ UNCHANGED positions
     ELSE /\ optionPositions' =
               [x \in OptionIDs |->
                  IF stratName = WithOptions /\ x \in OptionsOf(y)
                  THEN Repriced(x, price) ELSE optionPositions[x]]
          /\ ProcessStock(y, price)
  /\ UNCHANGED <<stratName, maxDrawdownPercent>>
  /\ UNCHANGED <<streamVars, gateVars, tokenVars, posVars, engVars>>

StratInit ==
  /\ InitStream
  /\ budget = [s \in Streamers |-> Budget(0, 0, 0)]
  /\ GateIdle
  /\ TokenIdle
  /\ StratIdle
  /\ PosIdle
  /\ EngIdle

StratNext ==
  \/ \E variant \in Variants, p \in DrawdownParams : NewStopLossStrategy(variant, p)
  \/ \E p \in DrawdownParams : UpdateParameters(p)
  \/ TrackPosition
  \/ FetchOptionPositions
  \/ \E y \in StratSymbols, price \in Prices : ProcessData(y, price)

SpecStrat == StratInit /\ [][StratNext]_vars

\* ------------------------------------------- position service: operations
\* Mutant of Supported: the switch has a case for every account type.
SupportedAny(a) == a \in AccountTypes

\* switch accountType { case Robinhood: ... default: error }.
Supported(a) == a = Robinhood

\* The call ends with ret; its locals stay readable until the next call.
Answer(call, ret) == [call EXCEPT !.pc = "idle", !.ret = ret]

\* A POST /positions request enters Service.GetPositions(accountType).
CallGetPositions(c) ==
  /\ posCalls[c].pc = "idle"
  /\ \E a \in AccountTypes :
       posCalls' = [posCalls EXCEPT ![c] =
                      [IdlePositions EXCEPT !.pc = "check", !.accountType = a,
                                            !.since = firstOK[a]]]
  /\ UNCHANGED <<positionCache, accountID, fetched, firstOK>>
  /\ UNCHANGED <<streamVars, gateVars, tokenVars, stratVars, engVars>>

\* The cache check under the read lock: an entry is returned as it is.
CheckPositionCache(c) ==
  LET call == posCalls[c]
  IN  /\ call.pc = "check"
      /\ IF positionCache[call.accountType] # 0
         THEN posCalls' = [posCalls EXCEPT ![c] =
                             Answer(call, PositionList(positionCache[call.accountType]))]
         ELSE posCalls' = [posCalls EXCEPT ![c].pc = "token"]
      /\ UNCHANGED <<positionCache, accountID, fetched, firstOK>>
      /\ UNCHANGED <<streamVars, gateVars, tokenVars, stratVars, engVars>>

\* s.tokenService.GetToken(accountType): the token service answers with a
\* token or with an error.
GetPositionToken(c) ==
  LET call == [posCalls[c] EXCEPT !.tokenReqs = @ + 1]
  IN  /\ posCalls[c].pc = "token"
      /\ \/ posCalls' = [posCalls EXCEPT ![c] = [call EXCEPT !.pc = "fetch"]]
         \/ posCalls' = [posCalls EXCEPT ![c] = Answer(call, PositionsError)]
      /\ UNCHANGED <<positionCache, accountID, fetched, firstOK>>
      /\ UNCHANGED <<streamVars, gateVars, tokenVars, stratVars, engVars>>

\* The switch on the account type and fetchRobinhoodPositions(token): an
\* unsupported type and an unconfigured account id are errors without a
\* request; the request fails or is answered with a new list.
FetchPositions(c) ==
  LET call == posCalls[c]
      asked == [call EXCEPT !.fetchReqs = @ + 1]
  IN  /\ call.pc = "fetch"
      /\ IF ~Supported(call.accountType) \/ accountID = ""
         THEN /\ posCalls' = [posCalls EXCEPT ![c] = Answer(call, PositionsError)]
              /\ UNCHANGED fetched
         ELSE \/ /\ posCalls' = [posCalls EXCEPT ![c] = Answer(asked, PositionsError)]
                 /\ UNCHANGED fetched
              \/ /\ fetched < MaxLists
                 /\ fetched' = fetched + 1
                 /\ posCalls' = [posCalls EXCEPT ![c] =
                                   [asked EXCEPT !.pc = "store", !.positions = fetched + 1]]
      /\ UNCHANGED <<positionCache, accountID, firstOK>>
      /\ UNCHANGED <<streamVars, gateVars, tokenVars, stratVars, engVars>>

\* s.positionCache[accountType] = positions, under the write lock.
StorePositions(c) ==
  LET call == posCalls[c]
  IN  /\ call.pc = "store"
      /\ positionCache' = [positionCache EXCEPT ![call.accountType] = call.positions]
      /\ posCalls' = [posCalls EXCEPT ![c] = [call EXCEPT !.pc = "return", !.stored = TRUE]]
      /\ UNCHANGED <<accountID, fetched, firstOK>>
      /\ UNCHANGED <<streamVars, gateVars, tokenVars, stratVars, engVars>>

\* return positions, nil.
ReturnPositions(c) ==
  LET call == posCalls[c]
  IN  /\ call.pc = "return"
      /\ posCalls' = [posCalls EXCEPT ![c] = Answer(call, PositionList(call.positions))]
      /\ firstOK' = [firstOK EXCEPT ![call.accountType] = IF @ = 0 THEN call.positions ELSE @]
      /\ UNCHANGED <<positionCache, accountID, fetched>>
      /\ UNCHANGED <<streamVars, gateVars, tokenVars, stratVars, engVars>>

PosInit ==
  /\ InitStream
  /\ budget = [s \in Streamers |-> Budget(0, 0, 0)]
  /\ GateIdle
  /\ TokenIdle
  /\ StratIdle
  /\ EngIdle
  /\ positionCache = [a \in AccountTypes |-> 0]
  /\ accountID \in {"", "acct"}
  /\ fetched = 0
  /\ firstOK = [a \in AccountTypes |-> 0]
  /\ posCalls = [c \in Callers |-> IdlePositions]

PosNext ==
  \/ \E c \in Callers : CallGetPositions(c)
  \/ \E c \in Callers : CheckPositionCache(c)
  \/ \E c \in Callers : GetPositionToken(c)
  \/ \E c \in Callers : FetchPositions(c)
  \/ \E c \in Callers : StorePositions(c)
  \/ \E c \in Callers : ReturnPositions(c)

SpecPos == PosInit /\ [][PosNext]_vars

\* ------------------------------------------- strategy engine: operations
\* Mutant of Registered: the lookup never finds an entry.
RegisteredNever(reg, name) == FALSE

\* _, exists := e.strategies[name]
Registered(reg, name) == reg[name] # NoStrategy

\* Mutant of AfterCleanup: the entry is deleted whatever Cleanup returned.
AfterCleanupDeleted(reg, name, err) == [reg EXCEPT ![name] = NoStrategy]

\* UnregisterStrategy after s.Cleanup returned err: an error is returned
\* before the delete.
AfterCleanup(reg, name, err) ==
  IF err # "nil" THEN reg ELSE [reg EXCEPT ![name] = NoStrategy]

\* The strategies of the registry.
RegisteredStrategies(reg) == {reg[n] : n \in {m \in DOMAIN reg : reg[m] # NoStrategy}}

\* RegisterStrategy(s).
RegisterStrategy(s) ==
  /\ IF Registered(strategies, s.name)
     THEN /\ engLast' = [NoEngineCall EXCEPT !.op = "register", !.err = ErrStrategyAlreadyExists]
          /\ UNCHANGED strategies
     ELSE /\ strategies' = [strategies EXCEPT ![s.name] = s]
          /\ engLast' = [NoEngineCall EXCEPT !.op = "register"]
  /\ UNCHANGED <<streamVars, gateVars, tokenVars, stratVars, posVars>>

\* UnregisterStrategy(name); err is what the strategy's Cleanup returns when
\* it is called.
UnregisterStrategy(name, err) ==
  /\ IF Registered(strategies, name)
     THEN /\ strategies' = AfterCleanup(strategies, name, err)
          /\ engLast' = [NoEngineCall EXCEPT !.op = "unregister", !.err = err]
     ELSE /\ engLast' = [NoEngineCall EXCEPT !.op = "unregister", !.err = ErrStrategyNotFound]
          /\ UNCHANGED strategies
  /\ UNCHANGED <<streamVars, gateVars, tokenVars, stratVars, posVars>>

\* ProcessMarketData(ctx, data): every registered strategy gets the data; the
\* signals of those that return one go to the signal handler; an error of a
\* strategy or of the signal handler is skipped, nil is returned.
ProcessMarketData ==
  /\ \E signalling \in SUBSET RegisteredStrategies(strategies) :
       engLast' = [NoEngineCall EXCEPT !.op = "process",
                                      !.called = RegisteredStrategies(strategies),
                                      !.handled = signalling]
  /\ UNCHANGED strategies
  /\ UNCHANGED <<streamVars, gateVars, tokenVars, stratVars, posVars>>

\* GetStrategy(name).
GetStrategy(name) ==
  /\ engLast' = [NoEngineCall EXCEPT !.op = "get", !.strategy = strategies[name],
                                     !.exists = Registered(strategies, name)]
  /\ UNCHANGED strategies
  /\ UNCHANGED <<streamVars, gateVars, tokenVars, stratVars, posVars>>

\* ListStrategies(): the names, in no particular order.
ListStrategies ==
  /\ engLast' = [NoEngineCall EXCEPT !.op = "list",
                   !.names = {n \in DOMAIN strategies : strategies[n] # NoStrategy}]
  /\ UNCHANGED strategies
  /\ UNCHANGED <<streamVars, gateVars, tokenVars, stratVars, posVars>>

EngInit ==
  /\ InitStream
  /\ budget = [s \in Streamers |-> Budget(0, 0, 0)]
  /\ GateIdle
  /\ TokenIdle
  /\ StratIdle
  /\ PosIdle
  /\ EngIdle

EngNext ==
  \/ \E s \in Instances : RegisterStrategy(s)
  \/ \E name \in DOMAIN strategies, err \in {"nil", ErrCleanup} : UnregisterStrategy(name, err)
  \/ ProcessMarketData
  \/ \E name \in DOMAIN strategies : GetStrategy(name)
  \/ ListStrategies

SpecEngine == EngInit /\ [][EngNext]_vars

TypeOK ==
  /\ process \in {"running", "exit0", "exit1", "panic"}
  /\ \A s \in Streamers :
       /\ pc[s] \in {"idle", "read", "dispatch", "sleep", "dial", "subscribe"}
       /\ conn[s] \in 0..nsock[s]
       /\ open[s] \subseteq 1..nsock[s]
  /\ \A s \in Streamers :
       budget[s].reads >= 0 /\ budget[s].drops >= 0 /\ budget[s].fails >= 0

\* ================================================================= claims

\* The delay the backoff schedule prescribes before the n-th attempt of a
\* failure streak.
ExpectedDelay(n) == IF n <= 6 THEN <<1, 2, 4, 8, 16, 30>>[n] ELSE 30

\* C1: in both streamers, the delay slept before the n-th attempt of a streak
\* of consecutive failed reconnect attempts is 1s,2s,4s,8s,16s,30s,30s,...,
\* and after a successful attempt the next streak starts with 1s again.
C1_BackoffSchedule ==
  \A s \in Streamers :
    pc[s] = "dial" => lastDelay[s] = ExpectedDelay(streak[s] + 1) * Second

\* A streamer that recovered at the seventh attempt of a streak has just slept
\* before the first attempt of its next streak.
C1_Witness ==
  \E s \in Streamers :
    /\ pc[s] = "dial" /\ streak[s] = 0
    /\ prevStreak[s] >= 6
    /\ lastDelay[s] = Second

\* main has returned from s.Close().
CloseReturned(s) ==
  IF s = "stock" THEN mainPc \in {"deferCrypto", "inCloseCrypto", "returned"}
  ELSE mainPc = "returned"

\* main is inside s.Close().
MainInClose(s) ==
  IF s = "stock" THEN mainPc = "inCloseStock" ELSE mainPc = "inCloseCrypto"

\* C2: once Close() has been called on a streamer, its Stream() makes no
\* further connect attempt and no socket is opened for it.
C2_NoConnectAfterClose ==
  [][\A s \in Streamers : CloseReturned(s) => ~Connect(s)]_vars

\* C3: whenever a streamer is back in its read loop the subscribe messages
\* written on the socket it holds are those the first Subscribe() wrote, one
\* per symbol in list order, and the symbols list is the one it was
\* constructed with.
C3_ResubscribeIdentical ==
  \A s \in Streamers :
    /\ conn[s] # 0 => symbols[s] = SymbolsOf(s)
    /\ pc[s] \in {"read", "dispatch"} =>
         /\ sent[s] = firstSent[s]
         /\ Len(sent[s]) = Len(SymbolsOf(s))
         /\ \A i \in 1..Len(sent[s]) : sent[s][i].symbol = SymbolsOf(s)[i]

\* A streamer reads again on a socket opened by a reconnect that followed at
\* least one failed attempt.
C3_Witness ==
  \E s \in Streamers :
    /\ pc[s] = "read" /\ nsock[s] >= 2 /\ prevStreak[s] >= 1
    /\ conn[s] = nsock[s] /\ conn[s] \in open[s]
    /\ Len(sent[s]) = 3

\* The calls one message gives rise to: none unless it is a JSON object of
\* type "trade"; otherwise record by record, and for each record handler by
\* handler.
FrameCalls(m, hs) ==
  IF m.kind = "object" /\ m.type = "trade"
  THEN [n \in 1..(Len(m.data) * Len(hs)) |->
          <<hs[((n - 1) % Len(hs)) + 1], m.data[((n - 1) \div Len(hs)) + 1]>>]
  ELSE <<>>

RECURSIVE ExpectedCalls(_, _)
ExpectedCalls(log, hs) ==
  IF log = <<>> THEN <<>>
  ELSE ExpectedCalls(SubSeq(log, 1, Len(log) - 1), hs) \o FrameCalls(log[Len(log)], hs)

IsPrefix(a, b) == Len(a) <= Len(b) /\ SubSeq(b, 1, Len(a)) = a

\* C4: the handler invocations of a streamer are, in order, the frames of type
\* "trade" as read, the records of each frame in array order, the handlers in
\* registration order for each record; when the next message is read every
\* call for the frames read so far has been made.
C4_DispatchOrder ==
  \A s \in Streamers :
    /\ IsPrefix(calls[s], ExpectedCalls(readLog[s], handlers[s]))
    /\ pc[s] # "dispatch" => calls[s] = ExpectedCalls(readLog[s], handlers[s])

\* Two frames of two records each have been dispatched to two handlers.
C4_Witness ==
  \E s \in Streamers :
    /\ pc[s] = "read" /\ Len(handlers[s]) = 2
    /\ Len(readLog[s]) = 2 /\ Len(calls[s]) = 8
    /\ readLog[s][1] # readLog[s][2]

\* The step is a ReadMessage of streamer s that returned message m.
Reads(s, m) == readLog'[s] = Append(readLog[s], m)

\* The last message streamer s read is a trade frame that directly followed a
\* message that does not decode, and its dispatch is over.
TradeAfterMalformed(s) ==
  /\ pc[s] = "read" /\ Len(readLog[s]) >= 2
  /\ readLog[s][Len(readLog[s]) - 1].kind # "object"
  /\ readLog[s][Len(readLog[s])].kind = "object"
  /\ readLog[s][Len(readLog[s])].type = "trade"

\* The last calls of streamer s deliver every record of the last message it
\* read to every handler.
LastFrameDelivered(s) ==
  LET m == readLog[s][Len(readLog[s])]
      nh == Len(handlers[s])
      base == Len(calls[s]) - Len(m.data) * nh
  IN  /\ base >= 0
      /\ \A i \in 1..Len(m.data) : \A k \in 1..nh :
           calls[s][base + (i - 1) * nh + k] = <<handlers[s][k], m.data[i]>>

\* C5: reading a message that fails to decode leaves the streamer in its read
\* loop on the same socket, with no handler called and no reconnect started;
\* a trade frame that follows it is delivered to every handler.
C5_MalformedSkipped ==
  [][\A s \in Streamers :
       /\ \A m \in RawMessages :
            (Reads(s, m) /\ m.kind # "object") =>
              /\ pc'[s] = "read"
              /\ calls'[s] = calls[s]
              /\ conn'[s] = conn[s] /\ open'[s] = open[s] /\ nsock'[s] = nsock[s]
              /\ backoff'[s] = backoff[s]
       /\ TradeAfterMalformed(s)' => LastFrameDelivered(s)']_vars

\* On its first socket a streamer with two handlers has read a malformed
\* message and then a trade frame, whose two records were dispatched.
C5_Witness ==
  \E s \in Streamers :
    /\ TradeAfterMalformed(s)
    /\ nsock[s] = 1 /\ Len(readLog[s]) = 2
    /\ Len(handlers[s]) = 2 /\ Len(calls[s]) = 4

\* The number of calls the trade frames of a log account for.
RECURSIVE TradeCallCount(_, _)
TradeCallCount(log, nh) ==
  IF log = <<>> THEN 0
  ELSE TradeCallCount(Tail(log), nh) +
       (IF Head(log).kind = "object" /\ Head(log).type = "trade"
        THEN Len(Head(log).data) * nh ELSE 0)

\* C6: reading a frame that decodes and whose type is not "trade" calls no
\* handler, whatever its data holds, and the read loop goes on to the next
\* message; handler calls are never more than the trade frames account for.
C6_NonTradeIgnored ==
  [][\A s \in Streamers :
       /\ \A m \in RawMessages :
            (Reads(s, m) /\ m.kind = "object" /\ m.type # "trade") =>
              /\ pc'[s] = "read"
              /\ calls'[s] = calls[s]
       /\ Len(calls'[s]) <= TradeCallCount(readLog'[s], Len(handlers'[s]))]_vars

\* A streamer read a non-trade frame that carries a record, made no call for
\* it, and went on to read and dispatch a trade frame.
C6_Witness ==
  \E s \in Streamers :
    /\ pc[s] = "read" /\ Len(readLog[s]) = 2
    /\ readLog[s][1].kind = "object" /\ readLog[s][1].type = "ping"
    /\ Len(readLog[s][1].data) > 0
    /\ readLog[s][2].type = "trade"
    /\ Len(calls[s]) = 2 * Len(handlers[s])

\* C7: a streamer never has more than one open socket, and whenever a socket
\* is dialled for it every socket it held before has been closed.
C7_OneSocket ==
  [][\A s \in Streamers :
       /\ Cardinality(open'[s]) <= 1
       /\ nsock'[s] # nsock[s] => open[s] = {}]_vars

\* Before any shutdown a streamer is reading on its third socket: the second
\* one was closed after a failed resubscribe.
C7_Witness ==
  \E s \in Streamers :
    /\ mainPc = "wait" /\ pc[s] = "read"
    /\ nsock[s] = 3 /\ open[s] = {3} /\ conn[s] = 3

\* C8: when main has returned after the interrupt, both streamers were closed
\* and both Stream() goroutines have finished (the WaitGroup is at zero).
C8_MainWaitsForStreams ==
  mainPc = "returned" => (wg = 0 /\ \A s \in Streamers : CloseReturned(s))

\* C9: while main is inside s.Close(), the Stream() goroutine of s takes no
\* step that reads from, closes or replaces s.conn.
C9_NoConcurrentConnAccess ==
  [][\A s \in Streamers :
       MainInClose(s) =>
         ~(ReadMessage(s) \/ ReadError(s) \/ Connect(s) \/ Resubscribe(s))]_vars

\* C10: a step of one streamer's Stream() leaves the other streamer's socket,
\* backoff, symbols and handlers as they were.
C10_Independent ==
  [][\A s \in Streamers :
       StreamStep(s) =>
         /\ conn'[Other(s)] = conn[Other(s)]
         /\ open'[Other(s)] = open[Other(s)]
         /\ nsock'[Other(s)] = nsock[Other(s)]
         /\ sent'[Other(s)] = sent[Other(s)]
         /\ backoff'[Other(s)] = backoff[Other(s)]
         /\ symbols'[Other(s)] = symbols[Other(s)]
         /\ handlers'[Other(s)] = handlers[Other(s)]]_vars

\* Before any shutdown both streamers are in their reconnect loops at the
\* same time, at different points of the backoff schedule.
C10_Witness ==
  /\ mainPc = "wait"
  /\ pc["crypto"] = "dial" /\ backoff["crypto"] = 4 * Second
  /\ pc["stock"] = "dial" /\ backoff["stock"] = 2 * Second

\* One subscribe message per symbol of the list, in list order.
FullSubscribe(syms) == [i \in 1..Len(syms) |-> SubscribeMsg(syms[i])]

\* The step is a Subscribe() of streamer s (main's first one, or the
\* resubscribe of Stream) that returned an error.
SubscribeFailed(s) ==
  \/ pc[s] = "subscribe" /\ pc'[s] = "sleep"
  \/ /\ mainPc = (IF s = "crypto" THEN "subCrypto" ELSE "subStock")
     /\ mainPc' = "fatal"

\* The step is a Subscribe() of streamer s that returned nil.
SubscribeSucceeded(s) ==
  \/ pc[s] = "subscribe" /\ pc'[s] = "read"
  \/ /\ mainPc = (IF s = "crypto" THEN "subCrypto" ELSE "subStock")
     /\ mainPc' \notin {mainPc, "fatal"}

\* C11: the messages written on a streamer's socket are always a prefix of
\* one message per symbol in list order; a Subscribe() returns an error
\* exactly when it stopped before the end of the list, and what it wrote
\* before stays written.
C11_SubscribePrefix ==
  [][\A s \in Streamers :
       /\ IsPrefix(sent'[s], FullSubscribe(symbols'[s]))
       /\ SubscribeFailed(s) => Len(sent'[s]) < Len(symbols[s])
       /\ SubscribeSucceeded(s) => sent'[s] = FullSubscribe(symbols[s])]_vars

\* A resubscribe wrote two of the three messages and failed on the third.
C11_Witness ==
  \E s \in Streamers :
    /\ pc[s] = "sleep" /\ nsock[s] >= 2
    /\ Len(sent[s]) = 2 /\ conn[s] \notin open[s]

\* C12: a resubscribe that fails closes the socket just opened and leaves
\* backoff alone; within a streak each delay is min(2 x the one before, 30s);
\* backoff only goes back down (to 1s) in the step in which the resubscribe
\* on an open socket has written every message.
C12_ResubscribeFailure ==
  [][\A s \in Streamers :
       /\ (pc[s] = "subscribe" /\ pc'[s] = "sleep") =>
            /\ conn[s] \notin open'[s] /\ conn'[s] = conn[s]
            /\ backoff'[s] = backoff[s]
       /\ (pc[s] = "sleep" /\ pc'[s] # "sleep") => pc'[s] = "dial"
       /\ (pc[s] = "sleep" /\ pc'[s] = "dial" /\ streak[s] > 0) =>
            lastDelay'[s] = (IF 2 * lastDelay[s] < 30 THEN 2 * lastDelay[s] ELSE 30)
       /\ backoff'[s] < backoff[s] =>
            /\ pc[s] = "subscribe" /\ pc'[s] = "read"
            /\ conn[s] \in open[s]
            /\ sent'[s] = FullSubscribe(symbols[s])
            /\ backoff'[s] = 1]_vars

\* After two failed attempts, the second a resubscribe that failed part way,
\* a streamer has slept 4s and is about to dial again.
C12_Witness ==
  \E s \in Streamers :
    /\ pc[s] = "dial" /\ streak[s] = 2 /\ lastDelay[s] = 4
    /\ Len(sent[s]) \in {1, 2} /\ conn[s] \notin open[s]

\* main has started the Stream() goroutine of streamer s.
Started(s) ==
  IF s = "crypto"
  THEN mainPc \in {"goStock", "wait", "deferStock", "inCloseStock", "deferCrypto",
                   "inCloseCrypto", "returned"}
  ELSE mainPc \in {"wait", "deferStock", "inCloseStock", "deferCrypto",
                   "inCloseCrypto", "returned"}

\* C13: once started, Stream() never returns, whatever fails and however
\* often; in its reconnect loop it always has a next step while the process
\* runs; and the process only exits with status 1 from main's startup, before
\* any Stream() was started.
C13_FailuresAbsorbed ==
  \A s \in Streamers :
    /\ Started(s) => pc[s] \in {"read", "dispatch", "sleep", "dial", "subscribe"}
    /\ (process = "running" /\ pc[s] \in {"sleep", "dial", "subscribe"}) =>
         ENABLED (Sleep(s) \/ Connect(s) \/ Resubscribe(s))
    /\ process = "exit1" => (mainPc = "fatal" /\ pc[s] = "idle")

\* A streamer is still retrying after seven consecutive failed attempts.
C13_Witness ==
  \E s \in Streamers :
    process = "running" /\ pc[s] = "sleep" /\ streak[s] >= 7

\* C14: while Stream() runs, backoff is at least 1s and at most 30s.
C14_BackoffRange ==
  \A s \in Streamers : pc[s] # "idle" => (backoff[s] >= 1 /\ backoff[s] <= 30)

\* A streamer has reached the ceiling, another point of its life the floor.
C14_Witness ==
  \E s \in Streamers :
    /\ pc[s] = "subscribe" /\ backoff[s] = 30 /\ lastDelay[s] = 30

\* C16: a Close() of main never returns an error, also when the socket was
\* already closed by the read-error path of Stream().
C16_CloseIdempotent ==
  \A s \in Streamers : closeRet[s] # "error"

\* C17: main makes a connect attempt only while fewer than 3 have failed for
\* the streamer; when the third fails the process exits before any subscribe
\* message was written or any Stream() started; the stock streamer exists
\* only if the crypto streamer does.
C17_StartupRetries ==
  /\ retries \in 0..3
  /\ mainPc \in {"newCrypto", "newStock"} => retries < 3
  /\ retries = 3 =>
       /\ mainPc = "fatal" /\ process = "exit1"
       /\ \A s \in Streamers : sent[s] = <<>> /\ firstSent[s] = <<>> /\ pc[s] = "idle"
  /\ conn["stock"] # 0 => conn["crypto"] # 0

\* The crypto streamer was constructed and the stock streamer failed three
\* times: startup failure.
C17_Witness ==
  /\ mainPc = "fatal" /\ retries = 3
  /\ conn["crypto"] # 0 /\ conn["stock"] = 0

\* The network has stopped failing for streamer s: every later connect and
\* every later subscribe write succeeds.
NetworkHealed(s) == budget[s].fails = 0

\* C15: a streamer that is in the reconnect loop when the network has stopped
\* failing eventually reads again with backoff back at 1s, unless the process
\* ends first.
C15_EventuallyStreaming ==
  \A s \in Streamers :
    (pc[s] \in {"sleep", "dial", "subscribe"} /\ NetworkHealed(s))
      ~> ((pc[s] = "read" /\ backoff[s] = 1 /\ conn[s] \in open[s]) \/ process # "running")

\* A streamer reads again on a new socket with backoff 1s after a streak of
\* two failures, which were the last failures of the network.
C15_Witness ==
  \E s \in Streamers :
    /\ process = "running" /\ pc[s] = "read" /\ NetworkHealed(s)
    /\ prevStreak[s] >= 2 /\ backoff[s] = 1 /\ nsock[s] >= 2 /\ conn[s] \in open[s]

\* The weekday of instant t in the exchange's calendar.
ExchangeWeekday(t) == t \div 1440

\* The time of day of instant t in the exchange's calendar, in minutes.
ExchangeMinute(t) == t % 1440

\* C18: an IsTrading() call at an instant that is a Saturday or a Sunday in
\* the exchange's calendar returned false, whatever the zone of the process.
C18_WeekendClosed ==
  (trading.at >= 0 /\ ExchangeWeekday(trading.at) \in {0, 6})
    => trading.result = FALSE

\* C19: on a weekday of the exchange's calendar, with the time zone database
\* present and the process running in exchange time, IsTrading() returned
\* true exactly for 09:30 <= t < 16:00.
C19_WeekdayWindow ==
  (/\ trading.at >= 0 /\ tzLoaded /\ zone = 0
   /\ ExchangeWeekday(trading.at) \in 1..5)
    => (trading.result <=> (/\ 570 <= ExchangeMinute(trading.at)
                            /\ ExchangeMinute(trading.at) < 960))

\* C20: what a stock Subscribe() wrote and returned is what it writes and
\* returns for the same symbols and the same failing write under either
\* answer of the gate.
C20_GateAdvisoryOnly ==
  gateSub.called =>
    \A g \in BOOLEAN :
      /\ StockSubscribe(stockSymbols, gateSub.k, g).writes = gateSub.writes
      /\ StockSubscribe(stockSymbols, gateSub.k, g).ok = gateSub.ok

\* A Subscribe() with the gate closed logged the warning, wrote every message
\* and returned nil.
C20_Witness ==
  /\ gateSub.called /\ gateSub.warned
  /\ gateSub.ok /\ Len(gateSub.writes) = 3

\* The step is taken by the GetToken() call of request c.
TokenStepOf(c) == tokenCalls'[c] # tokenCalls[c]

\* The step ends the GetToken() call of request c.
TokenCallEnds(c) == tokenCalls[c].pc # "idle" /\ tokenCalls'[c].pc = "idle"

\* C21: a GetToken() call that finds an entry for its account type whose
\* ExpiresAt is later than now returns exactly that token and expiry in that
\* step, has made no upstream request, and leaves the cache as it was.
C21_CachedTokenServed ==
  [][\A c \in Callers :
       LET call == tokenCalls[c]
           entry == tokenCache[call.accountType]
       IN (/\ TokenStepOf(c) /\ call.pc = "check"
           /\ entry.exists /\ entry.ExpiresAt > tokenNow)
          => /\ TokenCallEnds(c)
             /\ tokenCalls'[c].ret = [kind |-> "token",
                                      AccessToken |-> entry.AccessToken,
                                      ExpiresAt |-> entry.ExpiresAt]
             /\ call.reqs = <<>> /\ tokenCalls'[c].reqs = <<>>
             /\ issued' = issued
             /\ tokenCache' = tokenCache]_vars

\* A request was answered from the cache while the other request was about
\* to store a token it had fetched.
C21_Witness ==
  \E c, d \in Callers :
    /\ c # d
    /\ tokenCalls[c].pc = "idle" /\ tokenCalls[c].hit
    /\ tokenCalls[c].ret.kind = "token"
    /\ tokenCalls[c].ret.AccessToken = tokenCache[Robinhood].AccessToken
    /\ tokenCalls[d].pc = "store"

\* C22: with credentials present, a GetToken() call that finds no entry or an
\* expired one goes on to fetch instead of returning; and when a call that
\* fetched returns its token, the cache entry of its account type holds
\* exactly the token and expiry it returns.
C22_RefreshedAndCached ==
  [][\A c \in Callers :
       LET call == tokenCalls[c]
           entry == tokenCache[call.accountType]
           after == tokenCalls'[c]
       IN /\ (/\ TokenStepOf(c) /\ call.pc = "check"
              /\ call.accountType \in credentials
              /\ ~(entry.exists /\ entry.ExpiresAt > tokenNow))
             => after.pc = "creds" /\ after.ret.kind = "none"
          /\ (TokenCallEnds(c) /\ after.ret.kind = "token" /\ ~after.hit)
             => /\ tokenCache'[call.accountType].exists
                /\ tokenCache'[call.accountType].AccessToken = after.ret.AccessToken
                /\ tokenCache'[call.accountType].ExpiresAt = after.ret.ExpiresAt]_vars

\* C23: a GetToken() call that ends without a token ends with an error and
\* the cache unchanged; without credentials for the account type it ends
\* before any upstream request.
C23_ErrorLeavesCache ==
  [][\A c \in Callers :
       LET call == tokenCalls[c]
           after == tokenCalls'[c]
       IN /\ (TokenCallEnds(c) /\ after.ret.kind # "token")
             => after.ret.kind = "error" /\ tokenCache' = tokenCache
          /\ (TokenStepOf(c) /\ call.pc = "creds"
              /\ call.accountType \notin credentials)
             => /\ TokenCallEnds(c) /\ after.ret.kind = "error"
                /\ call.reqs = <<>> /\ after.reqs = <<>>]_vars

\* The requests of the verification workflow with n prompt-status polls.
WorkflowOrder(n) ==
  <<"token", "machine", "view">> \o [i \in 1..n |-> "prompt"] \o <<"workflow", "token">>

\* The requests a call has made so far, without their answers.
RequestsOf(call) == [i \in 1..Len(call.reqs) |-> call.reqs[i].req]

\* C24: after a verification workflow answer the requests follow the order
\* token, machine, view, prompt..., workflow, token; a token is taken only
\* from the final token request and only when the workflow status answer was
\* approved; and a call that ends inside the workflow ends with an error.
C24_WorkflowOrder ==
  [][\A c \in Callers :
       LET call == tokenCalls[c]
           after == tokenCalls'[c]
       IN /\ Len(after.reqs) >= 2
             => \E n \in 0..30 : IsPrefix(RequestsOf(after), WorkflowOrder(n))
          /\ (TokenStepOf(c) /\ after.pc = "store" /\ call.pc # "fetch")
             => /\ call.pc = "final"
                /\ \E n \in 1..30 : RequestsOf(call) \o <<"token">> = WorkflowOrder(n)
                /\ call.reqs[Len(call.reqs)].resp = "approved"
          /\ (/\ TokenCallEnds(c)
              /\ call.pc \in {"machine", "view", "prompt", "workflow", "final"})
             => after.ret.kind = "error"]_vars

C26_StockSignal ==
  [][\A y \in StratSymbols, price \in Prices :
       positions[y].tracked /\ ProcessData(y, price) =>
         LET highest == HigherOf(positions[y].HighestPrice, price)
             sells == /\ positions[y].Quantity > 0
                      /\ (highest - price) * 100 >= maxDrawdownPercent * highest
         IN  /\ ~stratLast'.err
             /\ stratLast'.signal.Action = "SELL" <=> sells
             /\ sells => /\ stratLast'.signal.Symbol = y
                         /\ stratLast'.signal.Price = price
                         /\ stratLast'.signal.Quantity = positions[y].Quantity]_vars

\* C27: while a symbol's position stays tracked its HighestPrice never
\* decreases, and after each ProcessData call it is the maximum of its value
\* at the start of tracking and every price processed for the symbol since.
C27_HighestPrice ==
  [][\A y \in StratSymbols :
       /\ positions[y].tracked /\ positions'[y].tracked =>
            positions'[y].HighestPrice >= positions[y].HighestPrice
       /\ positions'[y].tracked => positions'[y].HighestPrice = highSeen'[y]]_vars

\* C28: a stop-loss signal removes the symbol's tracked position; the next
\* ProcessData call for the symbol returns no signal and only starts a new
\* entry with quantity 0; an entry with quantity 0 never produces a signal.
C28_OneSignal ==
  [][\A y \in StratSymbols, price \in Prices :
       ProcessData(y, price) =>
         /\ stratLast'.signal.Action = "SELL" => ~positions'[y].tracked
         /\ ~positions[y].tracked =>
              /\ stratLast'.signal = NoSignal
              /\ positions'[y] = Position(price, 0)
         /\ positions[y].tracked /\ positions[y].Quantity = 0 =>
              stratLast'.signal = NoSignal]_vars

\* A step in which the GetPositions call of request c ends.
PositionsCallEnds(c) == posCalls[c].pc # "idle" /\ posCalls'[c].pc = "idle"

\* C29: once GetPositions has succeeded for an account type, every later call
\* for that account type returns that same cached list, without a call of the
\* token service or of the upstream API.
C29_CachedForever ==
  [][\A c \in Callers :
       PositionsCallEnds(c) /\ posCalls[c].since # 0 =>
         /\ posCalls'[c].ret = PositionList(posCalls[c].since)
         /\ posCalls'[c].tokenReqs = 0
         /\ posCalls'[c].fetchReqs = 0]_vars

\* C30: a request for an unsupported account type is answered with an error,
\* without a retry and with the cache unchanged; a call in which the token
\* fetch or the positions fetch fails caches nothing, and a later call that
\* finds no entry attempts the fetch again.
C30_FailureNotCached ==
  [][\A c \in Callers :
       /\ PositionsCallEnds(c) /\ posCalls[c].accountType # Robinhood =>
            posCalls'[c].ret = PositionsError
       /\ PositionsCallEnds(c) /\ posCalls'[c].ret = PositionsError =>
            /\ positionCache' = positionCache
            /\ ~posCalls'[c].stored
            /\ posCalls'[c].tokenReqs <= 1
            /\ posCalls'[c].fetchReqs <= 1
       /\ CheckPositionCache(c) /\ positionCache[posCalls[c].accountType] = 0 =>
            posCalls'[c].pc = "token"
       /\ \A a \in AccountTypes :
            positionCache'[a] # positionCache[a] =>
              \E d \in Callers : /\ posCalls[d].pc = "store"
                                 /\ posCalls[d].accountType = a
                                 /\ posCalls[d].fetchReqs = 1
                                 /\ posCalls[d].positions # 0
                                 /\ positionCache'[a] = posCalls[d].positions]_vars

\* A call failed at the positions fetch, nothing is cached for its account
\* type, and the other request is at the token fetch of a new attempt.
C30_Witness ==
  \E c, d \in Callers :
    /\ posCalls[c].pc = "idle"
    /\ posCalls[c].ret = PositionsError
    /\ posCalls[c].fetchReqs = 1
    /\ positionCache[posCalls[c].accountType] = 0
    /\ posCalls[d].pc = "token"
    /\ posCalls[d].accountType = posCalls[c].accountType

\* C31: a handler panic during dispatch is not caught by Stream(): the crypto
\* display handler panics on a trade whose symbol is shorter than 8
\* characters, and after the panic no remaining handler, no remaining record
\* of the frame and no later message of any streamer is processed.
C31_HandlerPanicAborts ==
  [][/\ \A s \in Streamers :
          /\ Dispatch(s)
          /\ handlers[s][dj[s]].market = "crypto"
          /\ Len(cur[s][di[s]].s) < PrefixLen
          => process' = "panic"
     /\ process = "panic" =>
          /\ process' = "panic"
          /\ calls' = calls
          /\ readLog' = readLog
          /\ pc' = pc /\ di' = di /\ dj' = dj]_vars

\* The process has panicked in a handler while calls of the frame remained.
C31_Witness ==
  /\ process = "panic"
  /\ \E s \in Streamers :
       /\ pc[s] = "dispatch"
       /\ HandlerPanics(handlers[s][dj[s]], cur[s][di[s]])
       /\ NextCall(di[s], dj[s], Len(cur[s]), Len(handlers[s])) # <<0, 0>>

\* The prompt-status polls a call has made so far.
PollsOf(call) == {i \in 1..Len(call.reqs) : call.reqs[i].req = "prompt"}

\* C32: the prompt-status poll runs at most 30 times, and the workflow-status
\* check and the final token request are only reached after a poll was
\* answered with status validated (30 polls answered issued end in an error).
C32_PollBounded ==
  \A c \in Callers :
    LET call == tokenCalls[c]
    IN  /\ Cardinality(PollsOf(call)) <= 30
        /\ call.pc \in {"workflow", "final"} =>
             \E i \in PollsOf(call) : call.reqs[i].resp = "validated"

\* C33: concurrent GetToken calls that find no valid cached token each go on
\* to their own upstream fetch; a call gets its token and its expiry together
\* from one response, each store puts the storing call's own pair into the
\* cache, so the cache holds the pair of the call that wrote last, and nothing
\* else changes an entry: no reader sees a token with another fetch's expiry.
C33_ConcurrentFetches ==
  [][\A c \in Callers :
       LET call == tokenCalls[c]
           after == tokenCalls'[c]
           entry == tokenCache[call.accountType]
       IN  /\ (/\ TokenStepOf(c) /\ call.pc = "check"
               /\ ~(entry.exists /\ tokenNow < entry.ExpiresAt))
              => after.pc = "creds"
           /\ (TokenStepOf(c) /\ call.pc = "fetch" /\ call.accountType = Robinhood)
              => \/ after.pc = "machine" /\ Len(after.reqs) = 1
                 \/ after.pc = "store"
                 \/ TokenCallEnds(c) /\ after.ret.kind = "error"
           /\ (after.token # call.token \/ after.expiresAt # call.expiresAt)
              => \/ /\ after.pc = "store"
                    /\ after.token = issued + 1 /\ issued' = issued + 1
                    /\ after.expiresAt \in {tokenNow + e : e \in ExpiresInValues}
                 \/ after.token = 0 /\ after.expiresAt = 0
           /\ (TokenStepOf(c) /\ call.pc = "store")
              => tokenCache'[call.accountType] =
                   [exists |-> TRUE, AccessToken |-> call.token,
                    ExpiresAt |-> call.expiresAt]
           /\ (TokenStepOf(c) /\ call.pc = "return")
              => after.ret = [kind |-> "token", AccessToken |-> call.token,
                              ExpiresAt |-> call.expiresAt]
           /\ (TokenStepOf(c) /\ call.pc # "store") => tokenCache' = tokenCache]_vars

\* Both requests have fetched a token of their own for the same account type,
\* with different expiries, and one of them has already stored its own.
C33_Witness ==
  \E c, d \in Callers :
    /\ tokenCalls[c].accountType = tokenCalls[d].accountType
    /\ tokenCalls[c].pc = "return"
    /\ tokenCalls[d].pc = "store"
    /\ tokenCalls[c].token # tokenCalls[d].token
    /\ tokenCalls[c].expiresAt # tokenCalls[d].expiresAt
    /\ tokenCache[tokenCalls[c].accountType] =
         [exists |-> TRUE, AccessToken |-> tokenCalls[c].token,
          ExpiresAt |-> tokenCalls[c].expiresAt]

\* C34: RegisterStrategy of a strategy whose name is already registered
\* returns ErrStrategyAlreadyExists and leaves the registry, with the strategy
\* stored under that name, unchanged; otherwise the strategy is added, and
\* GetStrategy and ListStrategies report what is registered.
C34_UniqueNames ==
  [][/\ \A s \in Instances :
          RegisterStrategy(s) =>
            IF strategies[s.name] # NoStrategy
            THEN /\ engLast'.err = ErrStrategyAlreadyExists
                 /\ strategies' = strategies
            ELSE /\ engLast'.err = "nil"
                 /\ strategies' = [strategies EXCEPT ![s.name] = s]
     /\ \A name \in DOMAIN strategies :
          GetStrategy(name) =>
            /\ engLast'.exists <=> strategies[name] # NoStrategy
            /\ engLast'.strategy = strategies[name]
     /\ ListStrategies =>
          engLast'.names = {n \in DOMAIN strategies : strategies[n] # NoStrategy}]_vars

\* A second strategy of a registered name has just been refused.
C34_Witness ==
  /\ engLast.op = "register"
  /\ engLast.err = ErrStrategyAlreadyExists
  /\ \E n \in StrategyNames : strategies[n] # NoStrategy

\* C35: UnregisterStrategy of an unknown name returns ErrStrategyNotFound
\* with the registry unchanged; when Cleanup fails its error is returned and
\* the strategy stays registered; only a successful Cleanup removes it; and
\* ProcessMarketData hands the data to every registered strategy.
C35_UnregisterAfterCleanup ==
  [][/\ \A name \in DOMAIN strategies, err \in {"nil", ErrCleanup} :
          UnregisterStrategy(name, err) =>
            IF strategies[name] = NoStrategy
            THEN /\ engLast'.err = ErrStrategyNotFound
                 /\ strategies' = strategies
            ELSE IF err # "nil"
                 THEN /\ engLast'.err = err
                      /\ strategies' = strategies
                 ELSE /\ engLast'.err = "nil"
                      /\ strategies' = [strategies EXCEPT ![name] = NoStrategy]
     /\ ProcessMarketData =>
          engLast'.called = {strategies[n] : n \in {m \in DOMAIN strategies :
                                                      strategies[m] # NoStrategy}}]_vars

\* A Cleanup has just failed and the strategy is still registered.
C35_Witness ==
  /\ engLast.op = "unregister"
  /\ engLast.err = ErrCleanup
  /\ \E n \in StrategyNames : strategies[n] # NoStrategy

====
